---- MODULE Spec2Model ----
(***************************************************************************)
(* MagicPaste: one run of PipelineExecutor (pipeline/orchestrator.py) with *)
(* the ModelClient adapter (services/model_client.py) and the clipboard    *)
(* reader (clipboard/reader.py), and the PipelineCoordinator with the      *)
(* websocket message handlers that drive it (server/app.py).               *)
(*                                                                         *)
(* Text is a sequence of tokens; the token " " is whitespace.  Python's    *)
(* Optional[T] is a record [some, val]; None is [some |-> FALSE].          *)
(* An action is the code one asyncio task runs between two awaits.         *)
(* The executor is built with an event callback, as server/app.py:311      *)
(* builds it, so every _emit reaches the sink; events is the sequence of   *)
(* events handed to that sink.  The sink is _event_callback of             *)
(* _handle_trigger_run: coordinator.handle_event, then the websocket send. *)
(*                                                                         *)
(* Spec follows the executor alone; CoordSpec follows the daemon: the run  *)
(* is started by trigger_run and the client may cancel, confirm, start a   *)
(* second run and disconnect while it is in flight.                        *)
(***************************************************************************)
EXTENDS Integers, Sequences, FiniteSets, TLC

\* ------------------------------------------------------------ bounds
\* Longest JSON array the stage-1 response holds.
MaxItems == 3
\* Most deltas one stage-2 stream delivers.
MaxDeltas == 1
\* Most messages the client sends before it disconnects.
MaxMessages == 2

\* ------------------------------------------------------------ values
None == [some |-> FALSE, val |-> <<>>]
Some(v) == [some |-> TRUE, val |-> v]
\* Python truthiness of an Optional[str]
Truthy(o) == o.some /\ o.val # <<>>

MANUAL_CANDIDATE_ID == "manual"
\* IntentResult.candidate_id before the executor sets it (Python's None)
NoCandidateId == ""
\* t("manual.image_output"), t("manual.title"), t("manual.desc"), en-US
ImageMarker == <<"[Clipboard image preserved as-is]">>
ManualTitle == "Paste as-is"
ManualDesc == "Keep the original clipboard content without changes."
ClipboardEmptyMsg == <<"No available text or image content in clipboard.">>
\* history previews: clipboard.text[:500], item.output[:400]
ClipboardPreviewLen == 500
OutputPreviewLen == 400

\* the request ids a client sends with trigger_run; the run followed step
\* by step is MainRun
RunIds == {"r1", "r2"}
MainRun == "r1"

\* uuid4().hex values: all that matters of them is that they are pairwise
\* distinct, differ from "manual", and come in no particular order.
UuidPool == <<"u1", "u2", "u3", "u4", "u5", "u6">>
\* the titles of a stage-1 response, in the order they appear in it
TitlePool == <<"T1", "T2", "T3", "T4", "T5", "T6">>

Min(a, b) == IF a < b THEN a ELSE b
Max(a, b) == IF a > b THEN a ELSE b
Take(s, n) == SubSeq(s, 1, Min(n, Len(s)))

\* str.strip(): drop leading and trailing whitespace
RECURSIVE LStrip(_)
LStrip(s) == IF s # <<>> /\ Head(s) = " " THEN LStrip(Tail(s)) ELSE s
RECURSIVE RStrip(_)
RStrip(s) ==
    IF s # <<>> /\ s[Len(s)] = " " THEN RStrip(SubSeq(s, 1, Len(s) - 1)) ELSE s
Strip(s) == RStrip(LStrip(s))

\* "".join(chunks)
RECURSIVE Join(_)
Join(chunks) == IF chunks = <<>> THEN <<>> ELSE Head(chunks) \o Join(Tail(chunks))

\* ------------------------------------------------------------ inputs
\* what pyperclip / pbpaste hold: _read_text gives None or non-empty text
OsTexts == {None, Some(<<"hello">>)}
\* settings stage1.max_candidates (any integer the file may hold)
MaxCandidateValues == {-1, 0, 1, 2}
\* ... when the daemon is followed: the value with which stage 2 holds
\* several candidates and they queue on the semaphore
CoordMaxCandidateValues == {-1}
\* (text_only, OS text, OS image) when the daemon is followed: an image
\* alone in text-only mode, nothing at all, a text with an image
CoordClipboards ==
    {<<TRUE, None, TRUE>>, <<FALSE, None, FALSE>>,
     <<FALSE, Some(<<"hello">>), TRUE>>}
\* messages of the exceptions the OpenAI SDK raises (never empty)
TransportErrors == {<<"Connection error.">>}
RenderErrorMsg == <<"template error">>
ConfigErrorMsg == <<"Model API key is missing.">>
TypeErrorMsg == <<"object is not iterable">>
\* the n-th non-empty delta of a stream
DeltaAt(n) == IF n % 2 = 1 THEN <<" ", "a">> ELSE <<" ">>
\* message.content of a non-streaming completion (before _chat strips it)
ChatContents == {<<" ">>, <<"b", " ">>}

\* the elements of the stage-1 JSON array: an object with a title (its
\* k-th titled element is titled TitlePool[k]), one without, a non-object
GoodItem(k) ==
    [is_dict |-> TRUE, title |-> TitlePool[k], description |-> "D",
     confidence |-> IF k % 2 = 1 THEN "high" ELSE "weird"]
UntitledItem ==
    [is_dict |-> TRUE, title |-> "", description |-> "D", confidence |-> "low"]
NonDictItem ==
    [is_dict |-> FALSE, title |-> "", description |-> "", confidence |-> ""]
Titled(s) == Cardinality({i \in 1..Len(s) : s[i].title # ""})
RECURSIVE ItemSeqs(_)
ItemSeqs(n) ==
    IF n = 0 THEN {<<>>}
    ELSE {Append(s, x) : s \in ItemSeqs(n - 1),
                         x \in {GoodItem(n), UntitledItem, NonDictItem}}
\* ... with the titled elements renamed in their order
Renamed(s) ==
    [i \in 1..Len(s) |->
        IF s[i].title # "" THEN GoodItem(Titled(SubSeq(s, 1, i))) ELSE s[i]]
JsonArrays == {Renamed(s) : s \in UNION {ItemSeqs(n) : n \in 0..MaxItems}}
\* the stage-1 response text, by what json.loads makes of it
Stage1Texts ==
    {[kind |-> k, items |-> <<>>] : k \in {"empty", "garbage", "scalar", "string"}}
    \cup {[kind |-> "object", items |-> <<x>>] : x \in {GoodItem(1), UntitledItem}}
    \cup {[kind |-> "array", items |-> a] : a \in JsonArrays}

\* ModelClient.last_stage1_raw before the stage-1 call returned
NoStage1Raw == "none"

\* ------------------------------------------------------------ state
VARIABLES
    text_only,          \* settings model.text_only
    max_candidates,     \* settings stage1.max_candidates
    os_text,            \* the OS clipboard's text
    os_image,           \* the OS clipboard holds an image
    sink_raises,        \* the event callback given to the executor raises
    pc,                 \* where the run's task is
    clipboard,          \* the ClipboardData snapshot
    manual_result,      \* self._manual_result
    manual_payload,     \* self._manual_payload
    candidate_entries,  \* _run's candidate_entries
    tasks,              \* the stage-2 sub-tasks, one per entry
    semaphore,          \* the permits left of the stage-2 semaphore
    stage2_results,     \* what _run_stage2_generation returned
    results,            \* _run's results list
    events,             \* events handed to the event sink, in order
    stage1_calls,       \* model calls made by generate_intents
    last_stage1_raw,    \* what json.loads makes of the stage-1 response text
    history,            \* records appended by _write_history
    returned,           \* run() returned a PipelineResult
    raised,             \* the exception run() raised to its caller
    completion,         \* sub-task indices in the order they returned
    _tasks,             \* PipelineCoordinator._tasks: run id -> task
    _results,           \* PipelineCoordinator._results
    _partial_outputs,   \* PipelineCoordinator._partial_outputs
    _manual_outputs,    \* PipelineCoordinator._manual_outputs
    callback_ran,       \* the run task's _done_callback has run
    second,             \* the task of a second run, followed from outside
    connected,          \* the websocket is open
    replies,            \* the replies the message handlers wrote, in order
    calls,              \* generate_outputs calls made on a ModelClient directly
    _send_lock,         \* WebSocketConnection._send_lock
    wire,               \* the messages written to the websocket, in order
    senders,            \* the tasks that send on the connection
    settings_file,      \* the parsed content of settings.yaml
    _raw_cache,         \* SettingsManager._raw_cache
    _settings,          \* SettingsManager._settings, by its raw content
    _lock,              \* SettingsManager._lock
    updaters            \* the apply_updates calls

vars ==
    <<text_only, max_candidates, os_text, os_image, sink_raises, pc, clipboard,
      manual_result, manual_payload, candidate_entries, tasks, semaphore,
      stage2_results, results, events, stage1_calls, last_stage1_raw, history, returned,
      raised, completion, _tasks, _results, _partial_outputs,
      _manual_outputs, callback_ran, second, connected, replies, calls,
      _send_lock, wire, senders, settings_file, _raw_cache, _settings, _lock,
      updaters>>

inputVars == <<text_only, max_candidates, os_text, os_image, sink_raises>>
\* what is followed apart from the executor and the coordinator: a
\* ModelClient called directly, the connection's send lock and its writes,
\* the SettingsManager
settingsVars == <<settings_file, _raw_cache, _settings, _lock, updaters>>
apartVars == <<calls, _send_lock, wire, senders, settingsVars>>
\* what only the coordinator and the message handlers change
coordVars == <<_tasks, _results, callback_ran, second, connected, replies>>
\* what an emitted event changes
sink == <<events, _partial_outputs, _manual_outputs>>

\* ------------------------------------------------------------ clipboard
NoSnapshot ==
    [present |-> FALSE, text |-> None, image_data |-> FALSE,
     original_has_image |-> FALSE]
Snapshot(text, image_data, original) ==
    [present |-> TRUE, text |-> text, image_data |-> image_data,
     original_has_image |-> original]

ClipboardReader_read_ImageOnlyIsEmpty(text, image, textOnly) ==
    IF textOnly
    THEN IF Truthy(text) THEN Snapshot(text, FALSE, image) ELSE NoSnapshot
    ELSE IF image THEN Snapshot(text, TRUE, TRUE)
         ELSE Snapshot(text, FALSE, FALSE)

\* ClipboardReader.read
ClipboardReader_read(text, image, textOnly) ==
    IF textOnly
    THEN IF Truthy(text) THEN Snapshot(text, FALSE, image)
         ELSE IF image THEN Snapshot(Some(<<>>), FALSE, TRUE)
         ELSE NoSnapshot
    ELSE IF image THEN Snapshot(text, TRUE, TRUE)
         ELSE Snapshot(text, FALSE, FALSE)

has_text(clip) == Truthy(clip.text)
has_image(clip) == clip.image_data

\* ------------------------------------------------------------ results
IntentResult(title, description, confidence, output, error, candidate_id) ==
    [title |-> title, description |-> description, confidence |-> confidence,
     output |-> output, error |-> error, candidate_id |-> candidate_id]

_build_manual_result_IgnoresImage(clip) ==
    IntentResult(ManualTitle, ManualDesc, "manual",
                 IF Truthy(clip.text) THEN clip.text.val ELSE <<>>, None,
                 MANUAL_CANDIDATE_ID)

\* PipelineExecutor._build_manual_result
_build_manual_result(clip) ==
    LET output == IF Truthy(clip.text) THEN clip.text.val
                  ELSE IF clip.original_has_image THEN ImageMarker
                  ELSE <<>>
    IN  IntentResult(ManualTitle, ManualDesc, "manual", output, None,
                     MANUAL_CANDIDATE_ID)

_candidate_payload_NoOutput(candidate, candidate_id, is_manual) ==
    IF is_manual
    THEN [id |-> candidate_id, title |-> candidate.title,
          description |-> candidate.description,
          confidence |-> candidate.confidence, is_manual |-> TRUE,
          initial_output |-> <<>>]
    ELSE [id |-> candidate_id, title |-> candidate.title,
          description |-> candidate.description,
          confidence |-> candidate.confidence, is_manual |-> FALSE]

\* PipelineExecutor._candidate_payload: initial_output only when is_manual
_candidate_payload(candidate, candidate_id, is_manual) ==
    IF is_manual
    THEN [id |-> candidate_id, title |-> candidate.title,
          description |-> candidate.description,
          confidence |-> candidate.confidence, is_manual |-> TRUE,
          initial_output |-> candidate.output]
    ELSE [id |-> candidate_id, title |-> candidate.title,
          description |-> candidate.description,
          confidence |-> candidate.confidence, is_manual |-> FALSE]

\* ------------------------------------------------------------ ModelClient
\* the confidence coercion of _parse_intents
Coerce(confidence) ==
    IF confidence \in {"low", "medium", "high"} THEN confidence ELSE "medium"

\* the loop of _parse_intents over the decoded items
RECURSIVE CollectIntents(_)
CollectIntents(items) ==
    IF items = <<>> THEN <<>>
    ELSE LET item == Head(items)
             rest == CollectIntents(Tail(items))
         IN  IF item.is_dict /\ item.title # ""
             THEN <<[title |-> item.title, description |-> item.description,
                     confidence |-> Coerce(item.confidence)]>> \o rest
             ELSE rest

\* ModelClient._parse_intents: a JSON number, boolean or null is neither a
\* dict nor iterable, so "for item in data" raises TypeError; a JSON string
\* is iterated character by character and yields nothing.
_parse_intents(raw) ==
    CASE raw.kind \in {"empty", "garbage", "string"} ->
            [raises |-> FALSE, intents |-> <<>>]
      [] raw.kind = "scalar" -> [raises |-> TRUE, intents |-> <<>>]
      [] OTHER -> [raises |-> FALSE, intents |-> CollectIntents(raw.items)]

\* Python's s[:n], n of either sign
PySlice(s, n) == IF n >= 0 THEN Take(s, n) ELSE Take(s, Max(0, Len(s) + n))

\* generate_intents after the model answered: parse, then truncate
generate_intents(raw, maxCandidates) ==
    LET parsed == _parse_intents(raw)
    IN  [raises |-> parsed.raises,
         intents |-> PySlice(parsed.intents, maxCandidates)]

\* generate_outputs._run, the try branch: the text came back
OutputResult(candidate, response_text) ==
    IntentResult(candidate.title, candidate.description, candidate.confidence,
                 Strip(response_text), None, NoCandidateId)

ErrorResult_ErrorDropped(candidate, message) ==
    IntentResult(candidate.title, candidate.description, candidate.confidence,
                 <<>>, None, NoCandidateId)

\* generate_outputs._run, the except branch
ErrorResult(candidate, message) ==
    IntentResult(candidate.title, candidate.description, candidate.confidence,
                 <<>>, Some(message), NoCandidateId)

\* ------------------------------------------------------------ events
RunStartedEvent(clip) ==
    [type |-> "run_started",
     clipboard_type |-> IF has_image(clip) THEN "image" ELSE "text",
     has_text |-> has_text(clip)]
CandidatesEvent(items) == [type |-> "candidates", items |-> items]
DeltaEvent(candidate_id, delta) ==
    [type |-> "preview_chunk", candidate_id |-> candidate_id,
     delta_text |-> Some(delta), is_final |-> FALSE, error |-> None]
FinalEvent_ErrorDropped(candidate_id, error) ==
    [type |-> "preview_chunk", candidate_id |-> candidate_id,
     delta_text |-> None, is_final |-> TRUE, error |-> None]

\* the final chunk carries "error" only when result.error is truthy
FinalEvent(candidate_id, error) ==
    [type |-> "preview_chunk", candidate_id |-> candidate_id,
     delta_text |-> None, is_final |-> TRUE,
     error |-> IF Truthy(error) THEN error ELSE None]
RunCompletedEvent(n) == [type |-> "run_completed", result_count |-> n]
ErrorEvent_NoFallback(message, payload) ==
    [type |-> "error", message |-> message, fallback |-> None]

\* _emit_error: the fallback only when self._manual_payload is set
ErrorEvent(message, payload) ==
    [type |-> "error", message |-> message, fallback |-> payload]

\* ------------------------------------------------------------ the sink
\* a Python dict is a function on its keys
EmptyDict == [k \in {} |-> <<>>]
DictGet(d, k, default) == IF k \in DOMAIN d THEN d[k] ELSE default
DictSet(d, k, v) == [x \in DOMAIN d \cup {k} |-> IF x = k THEN v ELSE d[x]]
\* the tables keyed by run id hold "absent" for a run id without an entry:
\* d.pop(k, None) leaves absent in its place
DictPop(d, k, absent) == [x \in DOMAIN d |-> IF x = k THEN absent ELSE d[x]]

\* PipelineCoordinator.handle_event, a preview_chunk event: a delta is
\* appended to the buffer, a final chunk makes sure the entry exists, an
\* error empties the entry
PartialAfter_WholeRun(partial, request_id, event) ==
    IF event.type # "preview_chunk" \/ event.candidate_id = NoCandidateId
    THEN partial
    ELSE [partial EXCEPT ![request_id] =
             Some(DictSet(EmptyDict, event.candidate_id,
                          IF Truthy(event.delta_text) /\ ~Truthy(event.error)
                          THEN event.delta_text.val ELSE <<>>))]
PartialAfter(partial, request_id, event) ==
    IF event.type # "preview_chunk" \/ event.candidate_id = NoCandidateId
    THEN partial
    ELSE LET cid == event.candidate_id
             run == IF partial[request_id].some
                    THEN partial[request_id].val ELSE EmptyDict
             buffered ==
                 IF Truthy(event.delta_text)
                 THEN DictSet(run, cid, DictGet(run, cid, <<>>) \o event.delta_text.val)
                 ELSE IF event.is_final
                      THEN DictSet(run, cid, DictGet(run, cid, <<>>))
                      ELSE run
             touched ==
                 Truthy(event.delta_text) \/ event.is_final \/ Truthy(event.error)
         IN  IF ~touched THEN partial
             ELSE [partial EXCEPT ![request_id] =
                      Some(IF Truthy(event.error)
                           THEN DictSet(buffered, cid, <<>>) ELSE buffered)]

\* PipelineCoordinator.handle_event, a candidates event: the manual item's
\* initial_output is recorded for the run
ManualAfter(manual, request_id, event) ==
    IF event.type # "candidates" THEN manual
    ELSE LET items == event.items
             manuals == {i \in 1..Len(items) : items[i].is_manual}
         IN  IF manuals = {} THEN manual
             ELSE [manual EXCEPT ![request_id] =
                      Some(items[CHOOSE i \in manuals :
                                    \A j \in manuals : j <= i].initial_output)]

Emit_SilentOnceFailed(event) ==
    IF sink_raises THEN UNCHANGED sink
    ELSE /\ events' = Append(events, event)
         /\ _partial_outputs' = PartialAfter(_partial_outputs, MainRun, event)
         /\ _manual_outputs' = ManualAfter(_manual_outputs, MainRun, event)

\* PipelineExecutor._emit: the event goes to the callback.  _event_callback
\* lets the coordinator handle it before it is sent on the websocket; a
\* callback that raises does nothing else, and its exception ends in
\* _emit's "except Exception": _emit returns as it does after a callback
\* that worked.
Emit(event) ==
    /\ events' = Append(events, event)
    /\ IF sink_raises
       THEN UNCHANGED <<_partial_outputs, _manual_outputs>>
       ELSE /\ _partial_outputs' = PartialAfter(_partial_outputs, MainRun, event)
            /\ _manual_outputs' = ManualAfter(_manual_outputs, MainRun, event)

\* _write_history's record
HistoryRecord(clip, items) ==
    [clipboard_preview |-> IF Truthy(clip.text)
                           THEN Take(clip.text.val, ClipboardPreviewLen)
                           ELSE <<"[image]">>,
     clipboard_has_image |-> clip.original_has_image,
     results |-> [i \in 1..Len(items) |->
                    [title |-> items[i].title,
                     candidate_id |-> items[i].candidate_id,
                     output_preview |-> Take(items[i].output, OutputPreviewLen),
                     error |-> items[i].error]]]
_write_history_Twice(clip, items) ==
    history' = history \o <<HistoryRecord(clip, items), HistoryRecord(clip, items)>>
_write_history(clip, items) == history' = Append(history, HistoryRecord(clip, items))

\* ------------------------------------------------------------ the run
\* the values of the task table: no entry, the task of the run followed
\* step by step, the task of the second run
NoTask == "none"
MainTask == "main"
SecondTask == "second"
NoSecond == [pc |-> "none", request_id |-> ""]
\* the replies of the message handlers; copied is what the handler wrote
\* to the OS clipboard before it replied
Reply(type, request_id, candidate_id, length, cancelled, copied) ==
    [type |-> type, request_id |-> request_id, candidate_id |-> candidate_id,
     length |-> length, cancelled |-> cancelled, copied |-> copied]

\* a handler writes its reply: connection.send_json / send_error
SendReply(reply) == replies' = Append(replies, reply)

\* asyncio.Lock(): not locked, nobody waiting
Unlocked == [locked |-> FALSE, waiters |-> <<>>]

\* a SettingsManager without settings file, nobody updating
SettingsAtRest ==
    /\ settings_file = EmptyDict
    /\ _raw_cache = EmptyDict
    /\ _settings = EmptyDict
    /\ _lock = Unlocked
    /\ updaters = <<>>

\* no direct call on a ModelClient, nothing sent on the connection
NothingApart ==
    /\ calls = <<>>
    /\ _send_lock = Unlocked
    /\ wire = <<>>
    /\ senders = <<>>
    /\ SettingsAtRest

\* the executor built and its task created
ExecutorCreated ==
    /\ text_only \in BOOLEAN
    /\ max_candidates \in MaxCandidateValues
    /\ os_text \in OsTexts
    /\ os_image \in BOOLEAN
    /\ pc = "created"
    /\ clipboard = NoSnapshot
    /\ manual_result = None
    /\ manual_payload = None
    /\ candidate_entries = <<>>
    /\ tasks = <<>>
    /\ semaphore = 0
    /\ stage2_results = <<>>
    /\ results = <<>>
    /\ events = <<>>
    /\ stage1_calls = 0
    /\ last_stage1_raw = NoStage1Raw
    /\ history = <<>>
    /\ returned = FALSE
    /\ raised = None
    /\ completion = <<>>
    /\ _tasks = [r \in RunIds |-> NoTask]
    /\ _results = [r \in RunIds |-> None]
    /\ _partial_outputs = [r \in RunIds |-> None]
    /\ _manual_outputs = [r \in RunIds |-> None]
    /\ callback_ran = FALSE
    /\ second = NoSecond
    /\ connected = TRUE
    /\ replies = <<>>
    /\ NothingApart

\* ... with an event callback that works
Init == ExecutorCreated /\ sink_raises = FALSE

\* ... with an event callback that raises on every event
FailingSinkInit == ExecutorCreated /\ sink_raises = TRUE

\* run(): "except Exception" around _run: emit the error event, then re-raise
RaiseFailure(message) ==
    /\ Emit(ErrorEvent(message, manual_payload))
    /\ raised' = Some(message)
    /\ pc' = "error_emitted"

\* _run up to its first await: read the clipboard, build the manual
\* candidate, emit run_started
Run_Start ==
    /\ pc = "created"
    /\ LET clip == ClipboardReader_read(os_text, os_image, text_only)
       IN  IF ~clip.present
           THEN /\ RaiseFailure(ClipboardEmptyMsg)
                /\ UNCHANGED <<clipboard, manual_result, manual_payload>>
           ELSE /\ clipboard' = clip
                /\ manual_result' = Some(_build_manual_result(clip))
                /\ manual_payload' =
                       Some(_candidate_payload(_build_manual_result(clip),
                                               MANUAL_CANDIDATE_ID, TRUE))
                /\ Emit(RunStartedEvent(clip))
                /\ pc' = "started"
                /\ UNCHANGED raised
    /\ UNCHANGED <<inputVars, apartVars, coordVars, candidate_entries, tasks, semaphore,
                   stage2_results, results, stage1_calls, last_stage1_raw, history, returned,
                   completion>>

\* text-only mode without text: emit the manual candidate alone
Run_ShortCircuit ==
    /\ pc = "started"
    /\ text_only /\ ~has_text(clipboard)
    /\ Emit(CandidatesEvent(<<manual_payload.val>>))
    /\ pc' = "sc_candidates"
    /\ UNCHANGED <<inputVars, apartVars, coordVars, clipboard, manual_result, manual_payload,
                   candidate_entries, tasks, semaphore, stage2_results,
                   results, stage1_calls, last_stage1_raw, history, returned, raised,
                   completion>>

\* ... then write the history and emit run_completed
Run_ShortCircuitComplete ==
    /\ pc = "sc_candidates"
    /\ results' = <<manual_result.val>>
    /\ _write_history(clipboard, <<manual_result.val>>)
    /\ Emit(RunCompletedEvent(1))
    /\ pc' = "completed"
    /\ UNCHANGED <<inputVars, apartVars, coordVars, clipboard, manual_result, manual_payload,
                   candidate_entries, tasks, semaphore, stage2_results,
                   stage1_calls, last_stage1_raw, returned, raised, completion>>

\* render the stage-1 prompts, build the client, send the stage-1 request
Run_Stage1Request ==
    /\ pc = "started"
    /\ ~(text_only /\ ~has_text(clipboard))
    /\ \E outcome \in {"ok", "render_error", "config_error"} :
          CASE outcome = "ok" ->
                  /\ stage1_calls' = stage1_calls + 1
                  /\ pc' = "stage1_wait"
                  /\ UNCHANGED <<sink, raised>>
            [] outcome = "render_error" ->
                  /\ RaiseFailure(RenderErrorMsg)
                  /\ UNCHANGED stage1_calls
            [] OTHER ->
                  /\ RaiseFailure(ConfigErrorMsg)
                  /\ UNCHANGED stage1_calls
    /\ UNCHANGED <<inputVars, apartVars, coordVars, clipboard, manual_result, manual_payload,
                   candidate_entries, tasks, semaphore, stage2_results,
                   results, last_stage1_raw, history, returned, completion>>

\* n fresh uuids: pairwise distinct, and as likely to fall in the order of
\* the candidates as against it
IdOrders(n) == {[i \in 1..n |-> i], [i \in 1..n |-> n + 1 - i]}

Entries_SameId(intents, ids) ==
    [i \in 1..Len(intents) |->
        [candidate_id |-> UuidPool[1], candidate |-> intents[i]]]

\* candidate_entries
Entries(intents, ids) ==
    [i \in 1..Len(intents) |->
        [candidate_id |-> UuidPool[ids[i]], candidate |-> intents[i]]]

CandidateItems_ManualFirst(entries, manualPayload) ==
    (IF manualPayload.some THEN <<manualPayload.val>> ELSE <<>>)
    \o [i \in 1..Len(entries) |->
          _candidate_payload(entries[i].candidate, entries[i].candidate_id, FALSE)]

\* the items of the candidates event
CandidateItems(entries, manualPayload) ==
    [i \in 1..Len(entries) |->
        _candidate_payload(entries[i].candidate, entries[i].candidate_id, FALSE)]
    \o (IF manualPayload.some THEN <<manualPayload.val>> ELSE <<>>)

\* the stage-1 call returns: parse, assign ids, emit candidates
Run_Stage1Response ==
    /\ pc = "stage1_wait"
    /\ \/ \E message \in TransportErrors :
             /\ RaiseFailure(message)
             /\ UNCHANGED <<candidate_entries, last_stage1_raw>>
       \/ \E raw \in Stage1Texts :
             LET got == generate_intents(raw, max_candidates)
             IN  /\ last_stage1_raw' = raw.kind
                 /\ IF got.raises
                    THEN /\ RaiseFailure(TypeErrorMsg)
                         /\ UNCHANGED candidate_entries
                    ELSE \E ids \in IdOrders(Len(got.intents)) :
                            /\ candidate_entries' = Entries(got.intents, ids)
                            /\ Emit(CandidatesEvent(
                                   CandidateItems(candidate_entries', manual_payload)))
                            /\ pc' = "candidates_emitted"
                            /\ UNCHANGED raised
    /\ UNCHANGED <<inputVars, apartVars, coordVars, clipboard, manual_result, manual_payload, tasks,
                   semaphore, stage2_results, results, stage1_calls, history,
                   returned, completion>>

\* ------------------------------------------------------------ stage 2
\* a sub-task created by asyncio.create_task(_generate_single_candidate(..))
NewTask ==
    [pc |-> "new", chunks |-> <<>>, response_text |-> <<>>, result |-> None,
     stream_calls |-> 0, chat_calls |-> 0, chat |-> None]

\* _run_stage2_generation up to "await asyncio.gather"; with no candidates
\* it returns at once and _run leaves "async with" (awaits client.close())
Run_Stage2Start ==
    /\ pc = "candidates_emitted"
    /\ IF candidate_entries = <<>>
       THEN /\ stage2_results' = <<>>
            /\ pc' = "client_closing"
            /\ UNCHANGED <<tasks, semaphore, sink, raised>>
       ELSE \E outcome \in {"ok", "render_error"} :
               IF outcome = "ok"
               THEN /\ semaphore' = Max(1, max_candidates)
                    /\ tasks' = [i \in 1..Len(candidate_entries) |-> NewTask]
                    /\ pc' = "gather"
                    /\ UNCHANGED <<stage2_results, sink, raised>>
               ELSE /\ RaiseFailure(RenderErrorMsg)
                    /\ UNCHANGED <<stage2_results, tasks, semaphore>>
    /\ UNCHANGED <<inputVars, apartVars, coordVars, clipboard, manual_result, manual_payload,
                   candidate_entries, results, stage1_calls, last_stage1_raw, history, returned,
                   completion>>

taskFrame ==
    <<inputVars, apartVars, coordVars, pc, clipboard, manual_result,
      manual_payload,
      candidate_entries, stage2_results, results, stage1_calls, last_stage1_raw, history,
      returned, raised>>

\* _maybe_stream_chat: the streaming request goes out
StreamRequest(task) ==
    [task EXCEPT !.pc = "stream_open", !.stream_calls = @ + 1]
ChatRequest_Twice(task) == [task EXCEPT !.pc = "chat_wait", !.chat_calls = @ + 2]

\* _maybe_stream_chat: the non-streaming request goes out
ChatRequest(task) == [task EXCEPT !.pc = "chat_wait", !.chat_calls = @ + 1]

\* the sub-task's first step: render the stage-2 prompt, enter the
\* semaphore, send the streaming request.  The event loop starts the
\* sub-tasks in the order create_task made them.
Task_Start(i) ==
    /\ tasks[i].pc = "new"
    /\ \A j \in 1..(i - 1) : tasks[j].pc # "new"
    /\ \E outcome \in {"ok", "render_error"} :
          IF outcome = "render_error"
          THEN /\ tasks' = [tasks EXCEPT ![i].pc = "crashed"]
               /\ UNCHANGED semaphore
          ELSE IF semaphore > 0
               THEN /\ semaphore' = semaphore - 1
                    /\ tasks' = [tasks EXCEPT ![i] = StreamRequest(@)]
               ELSE /\ tasks' = [tasks EXCEPT ![i].pc = "sem_wait"]
                    /\ UNCHANGED semaphore
    /\ UNCHANGED <<taskFrame, sink, completion>>

\* a waiter gets the permit a finished call released
Task_Acquire(i) ==
    /\ tasks[i].pc = "sem_wait"
    /\ semaphore > 0
    /\ semaphore' = semaphore - 1
    /\ tasks' = [tasks EXCEPT ![i] = StreamRequest(@)]
    /\ UNCHANGED <<taskFrame, sink, completion>>

\* the streaming request is answered: a stream, or an exception, after
\* which _maybe_stream_chat falls back to _chat
Task_StreamOpen(i) ==
    /\ tasks[i].pc = "stream_open"
    /\ \E ok \in BOOLEAN :
          IF ok THEN tasks' = [tasks EXCEPT ![i].pc = "streaming"]
          ELSE tasks' = [tasks EXCEPT ![i] = ChatRequest(@)]
    /\ UNCHANGED <<taskFrame, semaphore, sink, completion>>

\* one non-empty delta: chunks.append, chunk_callback -> _on_chunk -> _emit
Task_StreamDelta(i) ==
    /\ tasks[i].pc = "streaming"
    /\ Len(tasks[i].chunks) < MaxDeltas
    /\ LET delta == DeltaAt(Len(tasks[i].chunks) + 1)
       IN  /\ tasks' = [tasks EXCEPT ![i].chunks = Append(@, delta)]
           /\ Emit(DeltaEvent(candidate_entries[i].candidate_id, delta))
    /\ UNCHANGED <<taskFrame, semaphore, completion>>

\* generate_outputs returns: leave the semaphore, set the candidate id,
\* emit the final preview_chunk
Finish(i, task, result) ==
    /\ semaphore' = semaphore + 1
    /\ tasks' = [tasks EXCEPT ![i] =
                    [task EXCEPT !.pc = "final_emitted",
                                 !.result = Some([result EXCEPT !.candidate_id =
                                       candidate_entries[i].candidate_id])]]
    /\ Emit(FinalEvent(candidate_entries[i].candidate_id, result.error))

\* the stream ends: with chunks the text is their join, without any
\* _maybe_stream_chat falls back to _chat
Task_StreamEnd(i) ==
    /\ tasks[i].pc = "streaming"
    /\ IF tasks[i].chunks # <<>>
       THEN Finish(i, tasks[i],
                   OutputResult(candidate_entries[i].candidate,
                                Join(tasks[i].chunks)))
       ELSE /\ tasks' = [tasks EXCEPT ![i] = ChatRequest(@)]
            /\ UNCHANGED <<semaphore, sink>>
    /\ UNCHANGED <<taskFrame, completion>>

\* the stream breaks: fall back to _chat
Task_StreamFail(i) ==
    /\ tasks[i].pc = "streaming"
    /\ tasks' = [tasks EXCEPT ![i] = ChatRequest(@)]
    /\ UNCHANGED <<taskFrame, semaphore, sink, completion>>

\* the non-streaming call is answered: an exception becomes the result's
\* error; a non-empty text goes to the callback as one delta
Task_ChatResponse(i) ==
    /\ tasks[i].pc = "chat_wait"
    /\ \/ \E message \in TransportErrors :
             Finish(i, [tasks[i] EXCEPT !.chat = Some([ok |-> FALSE, val |-> message])],
                    ErrorResult(candidate_entries[i].candidate, message))
       \/ \E content \in ChatContents :
             LET text == Strip(content)
                 task == [tasks[i] EXCEPT !.chat = Some([ok |-> TRUE, val |-> content]),
                                          !.response_text = text]
             IN  IF text # <<>>
                 THEN /\ tasks' = [tasks EXCEPT ![i] =
                                      [task EXCEPT !.pc = "chat_delivered"]]
                      /\ Emit(DeltaEvent(candidate_entries[i].candidate_id, text))
                      /\ UNCHANGED semaphore
                 ELSE Finish(i, task,
                             OutputResult(candidate_entries[i].candidate, text))
    /\ UNCHANGED <<taskFrame, completion>>

\* the callback returned: _maybe_stream_chat returns the fallback text
Task_ChatDelivered(i) ==
    /\ tasks[i].pc = "chat_delivered"
    /\ Finish(i, tasks[i],
              OutputResult(candidate_entries[i].candidate, tasks[i].response_text))
    /\ UNCHANGED <<taskFrame, completion>>

\* the final chunk is out: the sub-task returns (candidate_id, result, ..)
Task_Return(i) ==
    /\ tasks[i].pc = "final_emitted"
    /\ tasks' = [tasks EXCEPT ![i].pc = "done"]
    /\ completion' = Append(completion, i)
    /\ UNCHANGED <<taskFrame, semaphore, sink>>

Stage2Results_ByCompletion(entries, taskSeq, order) ==
    [k \in 1..Len(order) |-> taskSeq[order[k]].result.val]

Stage2Results_SkipFailed(entries, taskSeq, order) ==
    LET Ok(task) == ~task.result.val.error.some
    IN  [k \in 1..Len(SelectSeq(taskSeq, Ok)) |-> SelectSeq(taskSeq, Ok)[k].result.val]

\* _run_stage2_generation after gather: the dict keyed by candidate id,
\* then the list in the order of the candidates
Stage2Results(entries, taskSeq, order) ==
    LET ids == {entries[i].candidate_id : i \in 1..Len(taskSeq)}
        dict == [id \in ids |->
                    taskSeq[CHOOSE i \in 1..Len(taskSeq) :
                               /\ entries[i].candidate_id = id
                               /\ \A j \in 1..Len(taskSeq) :
                                     entries[j].candidate_id = id => j <= i].result.val]
    IN  [i \in 1..Len(entries) |-> dict[entries[i].candidate_id]]

\* gather returns once every sub-task has returned
Run_GatherDone ==
    /\ pc = "gather"
    /\ \A i \in 1..Len(tasks) : tasks[i].pc = "done"
    /\ stage2_results' = Stage2Results(candidate_entries, tasks, completion)
    /\ pc' = "client_closing"
    /\ UNCHANGED <<inputVars, apartVars, coordVars, clipboard, manual_result, manual_payload,
                   candidate_entries, tasks, semaphore, results, sink,
                   stage1_calls, last_stage1_raw, history, returned, raised, completion>>

\* gather re-raises the first sub-task exception; the siblings keep running
Run_GatherRaise ==
    /\ pc = "gather"
    /\ \E i \in 1..Len(tasks) : tasks[i].pc = "crashed"
    /\ \A i \in 1..Len(tasks) : tasks[i].pc # "new"
    /\ RaiseFailure(RenderErrorMsg)
    /\ UNCHANGED <<inputVars, apartVars, coordVars, clipboard, manual_result, manual_payload,
                   candidate_entries, tasks, semaphore, stage2_results,
                   results, stage1_calls, last_stage1_raw, history, returned, completion>>

FinalResults_ManualFirst(stage2, manual) ==
    (IF manual.some THEN <<manual.val>> ELSE <<>>) \o stage2

\* the results of _run: stage 2's, then the manual result
FinalResults(stage2, manual) ==
    stage2 \o (IF manual.some THEN <<manual.val>> ELSE <<>>)

\* the client is closed: assemble, write the history, emit run_completed
Run_Complete ==
    /\ pc = "client_closing"
    /\ results' = FinalResults(stage2_results, manual_result)
    /\ _write_history(clipboard, results')
    /\ Emit(RunCompletedEvent(Len(results')))
    /\ pc' = "completed"
    /\ UNCHANGED <<inputVars, apartVars, coordVars, clipboard, manual_result, manual_payload,
                   candidate_entries, tasks, semaphore, stage2_results,
                   stage1_calls, last_stage1_raw, returned, raised, completion>>

\* _run returns the PipelineResult
Run_Return ==
    /\ pc = "completed"
    /\ returned' = TRUE
    /\ pc' = "done"
    /\ UNCHANGED <<inputVars, apartVars, coordVars, clipboard, manual_result, manual_payload,
                   candidate_entries, tasks, semaphore, stage2_results,
                   results, sink, stage1_calls, last_stage1_raw, history, raised, completion>>

\* run() re-raises after the error event
Run_Reraise ==
    /\ pc = "error_emitted"
    /\ pc' = "failed"
    /\ UNCHANGED <<inputVars, apartVars, coordVars, clipboard, manual_result, manual_payload,
                   candidate_entries, tasks, semaphore, stage2_results,
                   results, sink, stage1_calls, last_stage1_raw, history, returned, raised,
                   completion>>

Next ==
    \/ Run_Start
    \/ Run_ShortCircuit
    \/ Run_ShortCircuitComplete
    \/ Run_Stage1Request
    \/ Run_Stage1Response
    \/ Run_Stage2Start
    \/ \E i \in 1..Len(tasks) : Task_Start(i)
    \/ \E i \in 1..Len(tasks) : Task_Acquire(i)
    \/ \E i \in 1..Len(tasks) : Task_StreamOpen(i)
    \/ \E i \in 1..Len(tasks) : Task_StreamDelta(i)
    \/ \E i \in 1..Len(tasks) : Task_StreamEnd(i)
    \/ \E i \in 1..Len(tasks) : Task_StreamFail(i)
    \/ \E i \in 1..Len(tasks) : Task_ChatResponse(i)
    \/ \E i \in 1..Len(tasks) : Task_ChatDelivered(i)
    \/ \E i \in 1..Len(tasks) : Task_Return(i)
    \/ Run_GatherDone
    \/ Run_GatherRaise
    \/ Run_Complete
    \/ Run_Return
    \/ Run_Reraise

Spec == Init /\ [][Next]_vars

\* the executor alone, with a failing event callback
FailingSinkSpec == FailingSinkInit /\ [][Next]_vars

\* ------------------------------------------------------------ coordinator
PipelineResult(clip, items) == [clipboard |-> clip, results |-> items]

\* PipelineCoordinator.get_result
get_result(request_id) == DictGet(_results, request_id, None)

\* PipelineCoordinator.get_candidate_output: the stored result's item with
\* the id, else the manual output if it is truthy, else the buffer entry
get_candidate_output(request_id, candidate_id) ==
    LET result == DictGet(_results, request_id, None)
        items == IF result.some THEN result.val.results ELSE <<>>
        hits == {i \in 1..Len(items) : items[i].candidate_id = candidate_id}
        manual == DictGet(_manual_outputs, request_id, None)
        partial == DictGet(_partial_outputs, request_id, None)
        run == IF partial.some THEN partial.val ELSE EmptyDict
    IN  IF hits # {}
        THEN Some(items[CHOOSE i \in hits : \A j \in hits : i <= j].output)
        ELSE IF candidate_id = MANUAL_CANDIDATE_ID /\ Truthy(manual)
        THEN manual
        ELSE IF candidate_id \in DOMAIN run THEN Some(run[candidate_id])
        ELSE None

\* the daemon started: nothing registered, no run triggered yet
CoordInit ==
    /\ \E c \in CoordClipboards :
          text_only = c[1] /\ os_text = c[2] /\ os_image = c[3]
    /\ max_candidates \in CoordMaxCandidateValues
    /\ sink_raises = FALSE
    /\ pc = "idle"
    /\ clipboard = NoSnapshot
    /\ manual_result = None
    /\ manual_payload = None
    /\ candidate_entries = <<>>
    /\ tasks = <<>>
    /\ semaphore = 0
    /\ stage2_results = <<>>
    /\ results = <<>>
    /\ events = <<>>
    /\ stage1_calls = 0
    /\ last_stage1_raw = NoStage1Raw
    /\ history = <<>>
    /\ returned = FALSE
    /\ raised = None
    /\ completion = <<>>
    /\ _tasks = [r \in RunIds |-> NoTask]
    /\ _results = [r \in RunIds |-> None]
    /\ _partial_outputs = [r \in RunIds |-> None]
    /\ _manual_outputs = [r \in RunIds |-> None]
    /\ callback_ran = FALSE
    /\ second = NoSecond
    /\ connected = TRUE
    /\ replies = <<>>
    /\ NothingApart

runVars ==
    <<clipboard, manual_result, manual_payload, candidate_entries, semaphore,
      stage2_results, results, sink, stage1_calls, last_stage1_raw, history, returned, raised,
      completion>>

\* the run's task has finished (returned, raised or was cancelled)
TaskFinished == pc \in {"done", "failed", "cancelled"}

\* _handle_trigger_run -> start_run: create the executor and its task,
\* register the task under the run id, reply run_accepted
start_run ==
    /\ connected
    /\ Len(replies) < MaxMessages
    /\ pc = "idle"
    /\ pc' = "created"
    /\ _tasks' = [_tasks EXCEPT ![MainRun] = MainTask]
    /\ SendReply(Reply("run_accepted", MainRun, "", 0, FALSE, None))
    /\ UNCHANGED <<inputVars, apartVars, runVars, tasks, _results, callback_ran, second,
                   connected>>

\* start_run's _done_callback for the run's task: drop the three entries
\* of the run id; store the result unless fut.result() raises
_done_callback ==
    /\ TaskFinished
    /\ ~callback_ran
    /\ callback_ran' = TRUE
    /\ _tasks' = [_tasks EXCEPT ![MainRun] = NoTask]
    /\ _partial_outputs' = [_partial_outputs EXCEPT ![MainRun] = None]
    /\ _manual_outputs' = [_manual_outputs EXCEPT ![MainRun] = None]
    /\ _results' = IF pc = "done"
                   THEN [_results EXCEPT ![MainRun] =
                            Some(PipelineResult(clipboard, results))]
                   ELSE _results
    /\ UNCHANGED <<inputVars, apartVars, pc, clipboard, manual_result, manual_payload,
                   candidate_entries, tasks, semaphore, stage2_results,
                   results, events, stage1_calls, last_stage1_raw, history, returned, raised,
                   completion, second, connected, replies>>

\* a second trigger_run, with a request id the client chose or a fresh one
Second_start_run(request_id) ==
    /\ connected
    /\ Len(replies) < MaxMessages
    /\ second.pc = "none"
    /\ second' = [pc |-> "running", request_id |-> request_id]
    /\ _tasks' = [_tasks EXCEPT ![request_id] = SecondTask]
    /\ SendReply(Reply("run_accepted", request_id, "", 0, FALSE, None))
    /\ UNCHANGED <<inputVars, apartVars, pc, runVars, tasks, _results, callback_ran,
                   connected>>

\* the second run's task returns or raises
Second_Finish ==
    /\ second.pc = "running"
    /\ \E ok \in BOOLEAN :
          second' = [second EXCEPT !.pc = IF ok THEN "done" ELSE "failed"]
    /\ UNCHANGED <<inputVars, apartVars, pc, runVars, tasks, _tasks, _results,
                   callback_ran, connected, replies>>

\* what the second run returns: its clipboard held the text, no candidates
SecondResult ==
    LET clip == Snapshot(Some(<<"hello">>), FALSE, FALSE)
    IN  PipelineResult(clip, <<_build_manual_result(clip)>>)

\* the key _done_callback stores the result under: the request id of the
\* executor of its own start_run call
ResultKey_Shared(request_id) == MainRun
ResultKey(request_id) == request_id

\* start_run's _done_callback for the second run's task
Second_done_callback ==
    /\ second.pc \in {"done", "failed", "cancelled"}
    /\ second' = [second EXCEPT !.pc = "closed"]
    /\ _tasks' = [_tasks EXCEPT ![second.request_id] = NoTask]
    /\ _partial_outputs' = [_partial_outputs EXCEPT ![second.request_id] = None]
    /\ _manual_outputs' = [_manual_outputs EXCEPT ![second.request_id] = None]
    /\ _results' = IF second.pc = "done"
                   THEN [_results EXCEPT ![ResultKey(second.request_id)] =
                            Some(SecondResult)]
                   ELSE _results
    /\ UNCHANGED <<inputVars, apartVars, pc, clipboard, manual_result, manual_payload,
                   candidate_entries, tasks, semaphore, stage2_results,
                   results, events, stage1_calls, last_stage1_raw, history, returned, raised,
                   completion, callback_ran, connected, replies>>

\* payload.get("request_id") of a message without one (Python's None)
NoRequestId == ""
Missing_Never(field) == FALSE

\* "if not request_id", "if not candidate_id": the field is absent or empty
Missing(field) == field = ""

\* gather's outer future is still pending when no sub-task has raised;
\* after one raised it is done as soon as gather's callback has run
GatherReach ==
    IF \E i \in 1..Len(tasks) : tasks[i].pc = "crashed" THEN BOOLEAN ELSE {TRUE}

\* task.cancel() on each task of the set.  A finished task is left alone.
\* The run's task gets CancelledError at its await; while it awaits
\* gather, the cancellation reaches the sub-tasks that have not ended.
CancelTasks(handles, reach) ==
    /\ IF MainTask \in handles /\ ~TaskFinished
       THEN /\ pc' = "cancelled"
            /\ tasks' = IF pc = "gather" /\ reach
                        THEN [i \in 1..Len(tasks) |->
                                 IF tasks[i].pc \in {"done", "crashed"}
                                 THEN tasks[i]
                                 ELSE [tasks[i] EXCEPT !.pc = "cancelled"]]
                        ELSE tasks
       ELSE UNCHANGED <<pc, tasks>>
    /\ IF SecondTask \in handles /\ second.pc = "running"
       THEN second' = [second EXCEPT !.pc = "cancelled"]
       ELSE UNCHANGED second

\* _handle_cancel -> cancel_run: take the task out of the table, cancel
\* it, drop the buffer and the manual output, reply run_cancelled
_handle_cancel(request_id) ==
    /\ connected
    /\ Len(replies) < MaxMessages
    /\ IF Missing(request_id)
       THEN /\ SendReply(Reply("error_cancel_missing", NoRequestId, "", 0,
                                  FALSE, None))
            /\ UNCHANGED <<pc, tasks, second, _tasks, _partial_outputs,
                           _manual_outputs>>
       ELSE LET task == DictGet(_tasks, request_id, NoTask)
            IN  /\ \E reach \in GatherReach :
                      CancelTasks({task} \ {NoTask}, reach)
                /\ _tasks' = DictPop(_tasks, request_id, NoTask)
                /\ _partial_outputs' = DictPop(_partial_outputs, request_id, None)
                /\ _manual_outputs' = DictPop(_manual_outputs, request_id, None)
                /\ SendReply(Reply("run_cancelled", request_id, "", 0,
                                       task # NoTask, None))
    /\ UNCHANGED <<inputVars, apartVars, clipboard, manual_result, manual_payload,
                   candidate_entries, semaphore, stage2_results, results,
                   events, stage1_calls, last_stage1_raw, history, returned, raised,
                   completion, _results, callback_ran, connected>>

\* the client disconnects: websocket_endpoint calls cancel_all, which
\* calls cancel_run for every key of the task table
cancel_all ==
    /\ connected
    /\ connected' = FALSE
    /\ LET keys == {r \in RunIds : _tasks[r] # NoTask}
       IN  /\ \E reach \in GatherReach :
                 CancelTasks({_tasks[r] : r \in keys}, reach)
           /\ _tasks' = [r \in RunIds |-> NoTask]
           /\ _partial_outputs' =
                  [r \in RunIds |-> IF r \in keys THEN None ELSE _partial_outputs[r]]
           /\ _manual_outputs' =
                  [r \in RunIds |-> IF r \in keys THEN None ELSE _manual_outputs[r]]
    /\ UNCHANGED <<inputVars, apartVars, clipboard, manual_result, manual_payload,
                   candidate_entries, semaphore, stage2_results, results,
                   events, stage1_calls, last_stage1_raw, history, returned, raised,
                   completion, _results, callback_ran, replies>>

\* the candidate ids a client has seen
KnownCandidateIds ==
    {MANUAL_CANDIDATE_ID}
    \cup {candidate_entries[i].candidate_id : i \in 1..Len(candidate_entries)}

IsNone_Never(output) == FALSE

\* "if output is None"
IsNone(output) == ~output.some

\* a candidate id no run has produced
UnknownCandidateId == "nope"
\* the candidate ids a confirm_candidate message may carry
ConfirmIds == KnownCandidateIds \cup {UnknownCandidateId, NoCandidateId}

\* _handle_confirm: without both fields reply "missing"; resolve the
\* output; without one reply "not ready"; else copy it to the OS clipboard
\* unless skip_copy, then reply paste_ready.  pyperclip.copy may raise
\* PyperclipException.
_handle_confirm(request_id, candidate_id) ==
    /\ connected
    /\ Len(replies) < MaxMessages
    /\ LET output == get_candidate_output(request_id, candidate_id)
           result == get_result(request_id)
           original_clipboard_has_image ==
               result.some /\ result.val.clipboard.original_has_image
           skip_copy ==
               candidate_id = MANUAL_CANDIDATE_ID /\ original_clipboard_has_image
       IN  IF Missing(request_id) \/ Missing(candidate_id)
           THEN /\ SendReply(Reply("error_confirm_missing", NoRequestId, "", 0,
                                      FALSE, None))
                /\ UNCHANGED <<os_text, os_image>>
           ELSE IF IsNone(output)
           THEN /\ SendReply(Reply("error_not_ready", request_id, "", 0, FALSE, None))
                /\ UNCHANGED <<os_text, os_image>>
           ELSE IF skip_copy
           THEN /\ SendReply(Reply("paste_ready", request_id, candidate_id,
                                       Len(output.val), FALSE, None))
                /\ UNCHANGED <<os_text, os_image>>
           ELSE \E copied \in BOOLEAN :
                   IF copied
                   THEN /\ os_text' = IF output.val = <<>> THEN None ELSE output
                        /\ os_image' = FALSE
                        /\ SendReply(Reply("paste_ready", request_id, candidate_id,
                                               Len(output.val), FALSE, output))
                   ELSE /\ SendReply(Reply("error_copy_failed", request_id, "",
                                               0, FALSE, None))
                        /\ UNCHANGED <<os_text, os_image>>
    /\ UNCHANGED <<text_only, max_candidates, sink_raises, apartVars, pc, runVars, tasks,
                   _tasks, _results, callback_ran, second, connected>>

\* message types _handle_ws_message has no branch for
UnknownTypes == {"bogus"}

\* _handle_ws_message, the else branch: reply "unknown type"
_handle_ws_message(msg_type) ==
    /\ connected
    /\ Len(replies) < MaxMessages
    /\ msg_type \in UnknownTypes
    /\ SendReply(Reply("error_unknown_type", NoRequestId, "", 0, FALSE, None))
    /\ UNCHANGED <<inputVars, apartVars, pc, runVars, tasks, _tasks, _results,
                   callback_ran, second, connected>>

\* the request ids a confirm_candidate or cancel_run message may carry
MessageRunIds == RunIds \cup {NoRequestId}

CoordNext ==
    \/ start_run
    \/ Next
    \/ _done_callback
    \/ \E r \in RunIds : Second_start_run(r)
    \/ Second_Finish
    \/ Second_done_callback
    \/ \E r \in MessageRunIds : _handle_cancel(r)
    \/ cancel_all
    \/ \E r \in MessageRunIds : \E c \in ConfirmIds : _handle_confirm(r, c)
    \/ \E msg_type \in UnknownTypes : _handle_ws_message(msg_type)

CoordSpec == CoordInit /\ [][CoordNext]_vars

\* ------------------------------------------------------------ ModelClient alone
\* generate_outputs calls in flight at once on one ModelClient
ClientCalls == 2
\* str(exc) of the exception the caller's chunk_callback raises
CallbackErrorMsg == <<"callback failed">>
\* the chunk_callback a caller passes: none, one that works, one that may
\* raise
Callbacks == {"none", "works", "raises"}
\* payload.candidate of the c-th call
CallCandidate(c) ==
    [title |-> TitlePool[c], description |-> "D", confidence |-> "high"]

\* a call of generate_outputs before its first step.  delivered holds the
\* deltas the callback took, callback_errors counts the times it raised,
\* stream_failed tells that the streaming request was refused, or that the
\* stream broke or ended without a delta.
NewCall(callback) ==
    [pc |-> "new", callback |-> callback, chunks |-> <<>>, delivered |-> <<>>,
     callback_errors |-> 0, stream_failed |-> FALSE, stream_calls |-> 0,
     chat_calls |-> 0, chat |-> None, result |-> None]

\* no executor, no run, a coordinator with empty tables
Dormant ==
    /\ text_only = FALSE
    /\ max_candidates = 1
    /\ os_text = None
    /\ os_image = FALSE
    /\ sink_raises = FALSE
    /\ pc = "idle"
    /\ clipboard = NoSnapshot
    /\ manual_result = None
    /\ manual_payload = None
    /\ candidate_entries = <<>>
    /\ tasks = <<>>
    /\ semaphore = 0
    /\ stage2_results = <<>>
    /\ results = <<>>
    /\ events = <<>>
    /\ stage1_calls = 0
    /\ last_stage1_raw = NoStage1Raw
    /\ history = <<>>
    /\ returned = FALSE
    /\ raised = None
    /\ completion = <<>>
    /\ _tasks = [r \in RunIds |-> NoTask]
    /\ _results = [r \in RunIds |-> None]
    /\ _partial_outputs = [r \in RunIds |-> None]
    /\ _manual_outputs = [r \in RunIds |-> None]
    /\ callback_ran = FALSE
    /\ second = NoSecond
    /\ connected = TRUE
    /\ replies = <<>>

\* the variables of the executor and of the coordinator's handlers
restVars ==
    <<inputVars, pc, clipboard, manual_result, manual_payload,
      candidate_entries, tasks, semaphore, stage2_results, results, sink,
      stage1_calls, last_stage1_raw, history, returned, raised, completion,
      _results, callback_ran, second, connected, replies, settingsVars>>

\* generate_outputs called ClientCalls times, without semaphore
ClientInit ==
    /\ Dormant
    /\ calls \in [1..ClientCalls -> {NewCall(cb) : cb \in Callbacks}]
    /\ _send_lock = Unlocked
    /\ wire = <<>>
    /\ senders = <<>>
    /\ SettingsAtRest

clientFrame == <<restVars, _tasks, _send_lock, wire, senders>>

\* the executor's and the coordinator's variables
restFrame ==
    <<inputVars, pc, clipboard, manual_result, manual_payload,
      candidate_entries, tasks, semaphore, stage2_results, results, sink,
      stage1_calls, last_stage1_raw, history, returned, raised, completion,
      coordVars>>

\* whether chunk_callback raises when it is awaited
CallbackRaises(call) == IF call.callback = "raises" THEN BOOLEAN ELSE {FALSE}

\* generate_outputs._run -> _maybe_stream_chat: without a callback the
\* non-streaming request goes out, with one the streaming request
Call_Start(c) ==
    /\ calls[c].pc = "new"
    /\ calls' = [calls EXCEPT ![c] =
                    IF @.callback = "none" THEN ChatRequest(@)
                    ELSE StreamRequest(@)]
    /\ UNCHANGED clientFrame

\* the streaming request is answered: a stream, or an exception, caught by
\* "except Exception", after which _chat is called
Call_StreamOpen(c) ==
    /\ calls[c].pc = "stream_open"
    /\ \E ok \in BOOLEAN :
          IF ok THEN calls' = [calls EXCEPT ![c].pc = "streaming"]
          ELSE calls' = [calls EXCEPT ![c] =
                            ChatRequest([@ EXCEPT !.stream_failed = TRUE])]
    /\ UNCHANGED clientFrame

\* one non-empty delta: chunks.append(delta), await chunk_callback(delta).
\* The await stands inside the try of the streaming part: an exception of
\* the callback is caught by the same "except Exception" and _chat is
\* called.
Call_StreamDelta(c) ==
    /\ calls[c].pc = "streaming"
    /\ Len(calls[c].chunks) < MaxDeltas
    /\ \E raises \in CallbackRaises(calls[c]) :
          LET delta == DeltaAt(Len(calls[c].chunks) + 1)
              got == [calls[c] EXCEPT !.chunks = Append(@, delta)]
          IN  IF raises
              THEN calls' = [calls EXCEPT ![c] =
                                ChatRequest([got EXCEPT !.callback_errors = @ + 1])]
              ELSE calls' = [calls EXCEPT ![c] =
                                [got EXCEPT !.delivered = Append(@, delta)]]
    /\ UNCHANGED clientFrame

\* the stream ends: with chunks the text is their join and _run builds the
\* result, without any _chat is called
Call_StreamEnd(c) ==
    /\ calls[c].pc = "streaming"
    /\ IF calls[c].chunks # <<>>
       THEN calls' = [calls EXCEPT ![c] =
                         [@ EXCEPT !.pc = "done",
                                   !.result = Some(OutputResult(CallCandidate(c),
                                                                Join(calls[c].chunks)))]]
       ELSE calls' = [calls EXCEPT ![c] =
                         ChatRequest([@ EXCEPT !.stream_failed = TRUE])]
    /\ UNCHANGED clientFrame

\* the stream breaks: _chat is called
Call_StreamFail(c) ==
    /\ calls[c].pc = "streaming"
    /\ calls' = [calls EXCEPT ![c] = ChatRequest([@ EXCEPT !.stream_failed = TRUE])]
    /\ UNCHANGED clientFrame

\* the non-streaming call is answered.  Its exception becomes the result's
\* error.  Its text, if not empty, goes to the callback, outside any try of
\* _maybe_stream_chat: an exception of the callback reaches _run's "except
\* Exception" and becomes the result's error.
Call_ChatResponse(c) ==
    /\ calls[c].pc = "chat_wait"
    /\ \/ \E message \in TransportErrors :
             calls' = [calls EXCEPT ![c] =
                          [@ EXCEPT !.pc = "done",
                                    !.chat = Some([ok |-> FALSE, val |-> message]),
                                    !.result = Some(ErrorResult(CallCandidate(c),
                                                                message))]]
       \/ \E content \in ChatContents : \E raises \in CallbackRaises(calls[c]) :
             LET text == Strip(content)
                 got == [calls[c] EXCEPT !.pc = "done",
                                         !.chat = Some([ok |-> TRUE, val |-> content])]
             IN  IF text = <<>> \/ got.callback = "none"
                 THEN calls' = [calls EXCEPT ![c] =
                         [got EXCEPT !.result =
                             Some(OutputResult(CallCandidate(c), text))]]
                 ELSE IF raises
                 THEN calls' = [calls EXCEPT ![c] =
                         [got EXCEPT !.callback_errors = @ + 1,
                                     !.result =
                             Some(ErrorResult(CallCandidate(c), CallbackErrorMsg))]]
                 ELSE calls' = [calls EXCEPT ![c] =
                         [got EXCEPT !.delivered = Append(@, text),
                                     !.result =
                             Some(OutputResult(CallCandidate(c), text))]]
    /\ UNCHANGED clientFrame

ClientNext ==
    \/ \E c \in 1..Len(calls) : Call_Start(c)
    \/ \E c \in 1..Len(calls) : Call_StreamOpen(c)
    \/ \E c \in 1..Len(calls) : Call_StreamDelta(c)
    \/ \E c \in 1..Len(calls) : Call_StreamEnd(c)
    \/ \E c \in 1..Len(calls) : Call_StreamFail(c)
    \/ \E c \in 1..Len(calls) : Call_ChatResponse(c)

\* a ModelClient alone, its generate_outputs called with any callback
ClientSpec == ClientInit /\ [][ClientNext]_vars

\* ------------------------------------------------------------ one connection's writes
\* messages the receive loop of one connection handles
MaxWireMessages == 3
\* the receive loop of websocket_endpoint, which awaits each handler
Handler == "handler"
\* who calls send_json: the receive loop and the tasks of the runs
SenderIds == {Handler} \cup RunIds
\* what a run's task emits before it returns
Scripts == {<<"run_started", "run_completed">>, <<"error">>}
\* a message of send_json; waited tells that its sender queued for the lock
WireMsg(type, request_id, cancelled) ==
    [type |-> type, request_id |-> request_id, cancelled |-> cancelled,
     waited |-> FALSE]
NoMsg == WireMsg("", NoRequestId, FALSE)

\* a sender: where it stands, the message it is sending, the events its
\* run has yet to emit, whether task.cancel() reached it and is yet to be
\* delivered, and the messages the receive loop has taken
Sender(pc_, script) ==
    [pc |-> pc_, msg |-> NoMsg, script |-> script, must_cancel |-> FALSE,
     received |-> 0]

\* asyncio.Lock.acquire's fast path: not locked and every waiter cancelled
CanLockNow_Always(lock) == TRUE
CanLockNow_Barging(lock) == ~lock.locked
CanLockNow(lock) ==
    /\ ~lock.locked
    /\ \A k \in 1..Len(lock.waiters) : lock.waiters[k].fut = "cancelled"

\* asyncio.Lock._wake_up_first: set the result of the first waiter's
\* future unless that future is done (woken or cancelled) already
_wake_up_first(lock) ==
    IF lock.waiters # <<>> /\ lock.waiters[1].fut = "pending"
    THEN [lock EXCEPT !.waiters[1].fut = "done"]
    ELSE lock

\* asyncio.Lock.release
release(lock) == _wake_up_first([lock EXCEPT !.locked = FALSE])

\* asyncio.Lock.acquire up to its await: take the lock, or queue a future
Enter(lock, who) ==
    IF CanLockNow(lock)
    THEN [lock EXCEPT !.locked = TRUE]
    ELSE [lock EXCEPT !.waiters = Append(@, [who |-> who, fut |-> "pending"])]

\* acquire's "finally: self._waiters.remove(fut)"
Leave(lock, who) ==
    [lock EXCEPT !.waiters = SelectSeq(@, LAMBDA w : w.who # who)]

\* the future who waits on, "" when it does not wait
FutOf(lock, who) ==
    IF \E k \in 1..Len(lock.waiters) : lock.waiters[k].who = who
    THEN (CHOOSE w \in {lock.waiters[k] : k \in 1..Len(lock.waiters)} :
             w.who = who).fut
    ELSE ""

\* task.cancel() of a task waiting for the lock: a pending future is
\* cancelled at once
CancelFut(lock, who) ==
    LET waiters == lock.waiters
    IN  [lock EXCEPT !.waiters =
            [k \in 1..Len(waiters) |->
                IF waiters[k].who = who /\ waiters[k].fut = "pending"
                THEN [waiters[k] EXCEPT !.fut = "cancelled"]
                ELSE waiters[k]]]

\* send_json up to its first await, seen from the sender: nothing to do on
\* a closed connection, else the write begins or the sender waits
Sending(sender, lock, msg, after) ==
    IF ~connected THEN [sender EXCEPT !.pc = after]
    ELSE IF CanLockNow(lock) THEN [sender EXCEPT !.pc = "writing", !.msg = msg]
    ELSE [sender EXCEPT !.pc = "lock_wait", !.msg = msg]

\* the same, seen from the lock
Entering(lock, who) == IF ~connected THEN lock ELSE Enter(lock, who)

\* cancel_run's "return task is not None"
Found_Always(task) == TRUE
Found(task) == task # NoTask

\* the variables the connection's writes leave alone
wireFrame ==
    <<inputVars, pc, clipboard, manual_result, manual_payload,
      candidate_entries, tasks, semaphore, stage2_results, results, events,
      stage1_calls, last_stage1_raw, history, returned, raised, completion,
      _results, callback_ran, second, connected, replies, calls,
      settingsVars>>

\* an open connection, no run
WireInit ==
    /\ Dormant
    /\ calls = <<>>
    /\ SettingsAtRest
    /\ _send_lock = Unlocked
    /\ wire = <<>>
    /\ senders = [s \in SenderIds |->
                     IF s = Handler THEN Sender("idle", <<>>)
                     ELSE Sender("none", <<>>)]

\* the receive loop may take its next message
Receiving ==
    /\ senders[Handler].pc = "idle"
    /\ senders[Handler].received < MaxWireMessages

\* trigger_run with a run id not used before: start_run creates the task
\* and registers it, then run_accepted is sent, with no await in between
_handle_trigger_run(request_id, script) ==
    /\ Receiving
    /\ senders[request_id].pc = "none"
    /\ _tasks' = DictSet(_tasks, request_id, request_id)
    /\ senders' = [senders EXCEPT
          ![request_id] = Sender("created", script),
          ![Handler] = Sending([@ EXCEPT !.received = @ + 1], _send_lock,
                               WireMsg("run_accepted", request_id, FALSE),
                               "idle")]
    /\ _send_lock' = Entering(_send_lock, Handler)
    /\ UNCHANGED <<wireFrame, wire, _partial_outputs, _manual_outputs>>

\* task.cancel(): nothing for a task that is done, else the cancellation
\* is pending until the task runs
Cancelling(sender) ==
    IF sender.pc \in {"created", "ready", "lock_wait", "writing"}
    THEN [sender EXCEPT !.must_cancel = TRUE]
    ELSE sender

\* cancel_run with a run id: _handle_cancel -> cancel_run pops the task,
\* cancels it, pops the buffers; then run_cancelled is sent
cancel_run(request_id) ==
    /\ Receiving
    /\ LET task == DictGet(_tasks, request_id, NoTask)
           lock == IF Found(task) /\ task \in RunIds
                   THEN CancelFut(_send_lock, request_id)
                   ELSE _send_lock
       IN  /\ _tasks' = DictPop(_tasks, request_id, NoTask)
           /\ _partial_outputs' = DictPop(_partial_outputs, request_id, None)
           /\ _manual_outputs' = DictPop(_manual_outputs, request_id, None)
           /\ senders' = [senders EXCEPT
                 ![request_id] = IF task # NoTask THEN Cancelling(@) ELSE @,
                 ![Handler] = Sending([@ EXCEPT !.received = @ + 1], lock,
                                      WireMsg("run_cancelled", request_id,
                                              Found(task)),
                                      "idle")]
           /\ _send_lock' = Entering(lock, Handler)
    /\ UNCHANGED <<wireFrame, wire>>

\* the run's task runs and emits its next event: _event_callback ->
\* handle_event, send_event -> send_json
_event_callback(request_id) ==
    /\ senders[request_id].pc \in {"created", "ready"}
    /\ ~senders[request_id].must_cancel
    /\ senders[request_id].script # <<>>
    /\ senders' = [senders EXCEPT ![request_id] =
          Sending([@ EXCEPT !.script = Tail(@)], _send_lock,
                  WireMsg(Head(senders[request_id].script), request_id, FALSE),
                  "ready")]
    /\ _send_lock' = Entering(_send_lock, request_id)
    /\ UNCHANGED <<wireFrame, wire, _tasks, _partial_outputs, _manual_outputs>>

\* acquire after its await: the woken sender leaves the queue and holds
\* the lock; websocket.send_json begins
acquire(who) ==
    /\ senders[who].pc = "lock_wait"
    /\ ~senders[who].must_cancel
    /\ FutOf(_send_lock, who) = "done"
    /\ _send_lock' = [Leave(_send_lock, who) EXCEPT !.locked = TRUE]
    /\ senders' = [senders EXCEPT ![who] =
                      [@ EXCEPT !.pc = "writing", !.msg.waited = TRUE]]
    /\ UNCHANGED <<wireFrame, wire, _tasks, _partial_outputs, _manual_outputs>>

\* websocket.send_json returns: the message is out, "async with" releases
\* the lock, the sender goes on
send_json(who) ==
    /\ senders[who].pc = "writing"
    /\ ~senders[who].must_cancel
    /\ wire' = Append(wire, senders[who].msg)
    /\ _send_lock' = release(_send_lock)
    /\ senders' = [senders EXCEPT ![who] =
                      [@ EXCEPT !.pc = IF who = Handler THEN "idle" ELSE "ready",
                                !.msg = NoMsg]]
    /\ UNCHANGED <<wireFrame, _tasks, _partial_outputs, _manual_outputs>>

\* the run's task has emitted everything and returns
Task_Returns(request_id) ==
    /\ senders[request_id].pc \in {"created", "ready"}
    /\ ~senders[request_id].must_cancel
    /\ senders[request_id].script = <<>>
    /\ senders' = [senders EXCEPT ![request_id].pc = "finished"]
    /\ UNCHANGED <<wireFrame, wire, _send_lock, _tasks, _partial_outputs,
                   _manual_outputs>>

\* CancelledError is raised in the run's task where it stands.  Waiting
\* for the lock: acquire removes the future and, the lock being free,
\* wakes the first waiter.  Writing: "async with" releases the lock.
Task_Unwinds(request_id) ==
    /\ senders[request_id].must_cancel
    /\ _send_lock' =
          IF senders[request_id].pc = "lock_wait"
          THEN LET left == Leave(_send_lock, request_id)
               IN  IF left.locked THEN left ELSE _wake_up_first(left)
          ELSE IF senders[request_id].pc = "writing"
          THEN release(_send_lock)
          ELSE _send_lock
    /\ senders' = [senders EXCEPT ![request_id] =
                      [@ EXCEPT !.pc = "finished", !.msg = NoMsg,
                                !.must_cancel = FALSE]]
    /\ UNCHANGED <<wireFrame, wire, _tasks, _partial_outputs, _manual_outputs>>

\* start_run's _done_callback of a task that is done
Task_done_callback(request_id) ==
    /\ senders[request_id].pc = "finished"
    /\ senders' = [senders EXCEPT ![request_id].pc = "removed"]
    /\ _tasks' = DictPop(_tasks, request_id, NoTask)
    /\ _partial_outputs' = DictPop(_partial_outputs, request_id, None)
    /\ _manual_outputs' = DictPop(_manual_outputs, request_id, None)
    /\ UNCHANGED <<wireFrame, wire, _send_lock>>

WireNext ==
    \/ \E r \in RunIds : \E script \in Scripts : _handle_trigger_run(r, script)
    \/ \E r \in RunIds : cancel_run(r)
    \/ \E r \in RunIds : _event_callback(r)
    \/ \E who \in SenderIds : acquire(who)
    \/ \E who \in SenderIds : send_json(who)
    \/ \E r \in RunIds : Task_Returns(r)
    \/ \E r \in RunIds : Task_Unwinds(r)
    \/ \E r \in RunIds : Task_done_callback(r)

\* one open connection: the receive loop and the runs it starts all write
\* through send_json
WireSpec == WireInit /\ [][WireNext]_vars

\* ------------------------------------------------------------ settings
\* a value of the settings tree: a dict of values, or a leaf
Dict(items) == [dict |-> TRUE, items |-> items]
Leaf(v) == [dict |-> FALSE, items |-> v]

\* _deep_merge: a dict of the updates is merged into a dict of the
\* original key by key, anything else replaces the original's entry
RECURSIVE _deep_merge(_, _)
_deep_merge(original, updates) ==
    [k \in DOMAIN original \cup DOMAIN updates |->
        IF k \notin DOMAIN updates THEN original[k]
        ELSE IF /\ updates[k].dict
                /\ k \in DOMAIN original
                /\ original[k].dict
             THEN Dict(_deep_merge(original[k].items, updates[k].items))
             ELSE updates[k]]

\* a dict with one key
One(k, v) == [x \in {k} |-> v]

\* the settings file a daemon starts with, besides none at all
StoredSettings ==
    [x \in {"model", "ui"} |->
        IF x = "model"
        THEN Dict([y \in {"name", "api_key"} |-> Leaf("old")])
        ELSE Dict(One("locale", Leaf("old")))]
SettingsFiles == {EmptyDict, StoredSettings}

\* apply_updates calls of one caller
MaxUpdates == 2
\* the updates of the callers: they touch pairwise different keys, two of
\* them in the same section
SettingsUpdates ==
    {One("model", Dict(One("name", Leaf("new")))),
     One("model", Dict(One("api_key", Leaf("new")))),
     One("ui", Dict(One("locale", Leaf("new"))))}

\* who calls apply_updates: the websocket handler _handle_settings_update
\* and the HTTP endpoint update_settings
UpdaterIds == {"ws", "http"}

\* a caller of apply_updates: its position, the updates and the local raw
\* of its call, the updates of its calls that returned
Updater(pc_, updates, raw, applied) ==
    [pc |-> pc_, updates |-> updates, raw |-> raw, applied |-> applied]

\* asyncio.Lock.acquire up to its await, for the settings lock
SettingsEnter_NoWait(lock, who) == [lock EXCEPT !.locked = TRUE]
SettingsEnter(lock, who) == Enter(lock, who)

settingsFrame ==
    <<restFrame, calls, _send_lock, wire, senders>>

\* SettingsManager.__init__: settings and raw cache are read from the file
SettingsInit ==
    /\ Dormant
    /\ calls = <<>>
    /\ _send_lock = Unlocked
    /\ wire = <<>>
    /\ senders = <<>>
    /\ settings_file \in SettingsFiles
    /\ _raw_cache = settings_file
    /\ _settings = settings_file
    /\ _lock = Unlocked
    /\ updaters = [u \in UpdaterIds |->
                      Updater("idle", EmptyDict, EmptyDict, <<>>)]

\* apply_updates is called: "async with self._lock" takes the lock or
\* waits for it
apply_updates(u, updates) ==
    /\ updaters[u].pc = "idle"
    /\ Len(updaters[u].applied) < MaxUpdates
    /\ _lock' = SettingsEnter(_lock, u)
    /\ updaters' = [updaters EXCEPT ![u] =
          Updater(IF _lock'.locked /\ FutOf(_lock', u) = "" THEN "locked"
                  ELSE "lock_wait",
                  updates, EmptyDict, @.applied)]
    /\ UNCHANGED <<settingsFrame, settings_file, _raw_cache, _settings>>

\* acquire after its await: the woken caller holds the lock
Settings_acquire(u) ==
    /\ updaters[u].pc = "lock_wait"
    /\ FutOf(_lock, u) = "done"
    /\ _lock' = [Leave(_lock, u) EXCEPT !.locked = TRUE]
    /\ updaters' = [updaters EXCEPT ![u].pc = "locked"]
    /\ UNCHANGED <<settingsFrame, settings_file, _raw_cache, _settings>>

\* raw = self._read_raw(); _deep_merge(raw, updates).  The steps of the
\* section are followed one by one: the section is exclusive by the lock
\* alone, not by the absence of an await in it.
Settings_ReadMerge(u) ==
    /\ updaters[u].pc = "locked"
    /\ updaters' = [updaters EXCEPT ![u] =
          [@ EXCEPT !.pc = "merged",
                    !.raw = _deep_merge(settings_file,
                                         updaters[u].updates)]]
    /\ UNCHANGED <<settingsFrame, settings_file, _raw_cache, _settings, _lock>>

\* _YAML.dump(raw, handle)
Settings_Persist(u) ==
    /\ updaters[u].pc = "merged"
    /\ settings_file' = updaters[u].raw
    /\ updaters' = [updaters EXCEPT ![u].pc = "persisted"]
    /\ UNCHANGED <<settingsFrame, _raw_cache, _settings, _lock>>

\* self._raw_cache = raw; self._settings = load_settings(self.path); the
\* lock is released on return
Settings_Replace(u) ==
    /\ updaters[u].pc = "persisted"
    /\ _raw_cache' = updaters[u].raw
    /\ _settings' = settings_file
    /\ _lock' = release(_lock)
    /\ updaters' = [updaters EXCEPT ![u] =
          Updater("idle", EmptyDict, EmptyDict,
                  Append(@.applied, @.updates))]
    /\ UNCHANGED <<settingsFrame, settings_file>>

\* reload_if_needed, called by _handle_trigger_run without the lock
reload_if_needed ==
    /\ _settings' = settings_file
    /\ _raw_cache' = settings_file
    /\ UNCHANGED <<settingsFrame, settings_file, _lock, updaters>>

SettingsNext ==
    \/ \E u \in UpdaterIds : \E updates \in SettingsUpdates : apply_updates(u, updates)
    \/ \E u \in UpdaterIds : Settings_acquire(u)
    \/ \E u \in UpdaterIds : Settings_ReadMerge(u)
    \/ \E u \in UpdaterIds : Settings_Persist(u)
    \/ \E u \in UpdaterIds : Settings_Replace(u)
    \/ reload_if_needed

\* a SettingsManager and two concurrent callers of apply_updates
SettingsSpec == SettingsInit /\ [][SettingsNext]_vars

\* ------------------------------------------------------------ properties
K == Len(candidate_entries)
IsFinalOf(e, id) == e.type = "preview_chunk" /\ e.is_final /\ e.candidate_id = id
IsDeltaOf(e, id) == e.type = "preview_chunk" /\ ~e.is_final /\ e.candidate_id = id
Positions(type) == {k \in 1..Len(events) : events[k].type = type}
ManualCount(list) ==
    Cardinality({i \in 1..Len(list) : list[i].candidate_id = MANUAL_CANDIDATE_ID})
\* the non-streaming call of sub-task i ended in a transport error
ChatFailed(i) == tasks[i].chat.some /\ ~tasks[i].chat.val.ok

\* C1: every RunResult run() returns, on the full path and on the text-only
\* short-circuit path, holds exactly one result with the manual id, and it
\* is the last one.
C1_ManualResultLast ==
    returned =>
        /\ results # <<>>
        /\ results[Len(results)].candidate_id = MANUAL_CANDIDATE_ID
        /\ ManualCount(results) = 1

\* C1 witness: a returned full-path run with a failed and a successful
\* stage-2 result before the manual one.
C1_Witness ==
    /\ returned
    /\ Len(results) >= 3
    /\ \E i, j \in 1..(Len(results) - 1) :
          results[i].error.some /\ ~results[j].error.some

\* what sub-task i's result must be, given only what the backend answered
\* to sub-task i's own calls
OwnOutcome(i) ==
    LET task == tasks[i]
    IN  IF task.chat.some
        THEN IF task.chat.val.ok
             THEN [output |-> Strip(task.chat.val.val), error |-> None]
             ELSE [output |-> <<>>, error |-> Some(task.chat.val.val)]
        ELSE [output |-> Strip(Join(task.chunks)), error |-> None]
MatchesOwnOutcome(result, i) ==
    /\ result.output = OwnOutcome(i).output
    /\ result.error = OwnOutcome(i).error
    /\ result.candidate_id = candidate_entries[i].candidate_id
    /\ result.title = candidate_entries[i].candidate.title
NoTaskCrashed == \A j \in 1..Len(tasks) : tasks[j].pc # "crashed"

\* C2: when the stage-2 generation of one candidate fails with a transport
\* error (its last model call, the non-streaming one, raised), that
\* candidate's result has output "" and a non-empty error; each sibling's
\* result is what the backend's answers to the sibling's own calls make it;
\* the failure does not fail the run (only a crashed sub-task does), the
\* run can always go on, and once it returned its last event is
\* run_completed and its results are those of the sub-tasks.
C2_Stage2FailureIsolated ==
    \A i \in 1..Len(tasks) :
        ChatFailed(i) =>
            /\ tasks[i].result.some
            /\ tasks[i].result.val.output = <<>>
            /\ Truthy(tasks[i].result.val.error)
            /\ \A j \in 1..Len(tasks) :
                  j # i /\ tasks[j].result.some =>
                      MatchesOwnOutcome(tasks[j].result.val, j)
            /\ NoTaskCrashed => ~raised.some /\ pc \notin {"error_emitted", "failed"}
            /\ NoTaskCrashed /\ ~returned => ENABLED Next
            /\ returned =>
                  /\ events[Len(events)].type = "run_completed"
                  /\ Len(results) = Len(tasks) + 1
                  /\ \A j \in 1..Len(tasks) : MatchesOwnOutcome(results[j], j)

\* C2 witness: a returned run in which one candidate's call failed and a
\* sibling produced text.
C2_Witness ==
    /\ returned
    /\ \E i, j \in 1..Len(tasks) :
          /\ i # j
          /\ ChatFailed(i)
          /\ ~tasks[j].result.val.error.some
          /\ tasks[j].result.val.output # <<>>

\* C3: the i-th returned result carries the id and the title of the i-th
\* stage-1 candidate, whatever the order in which the sub-tasks completed.
C3_ResultOrderIsCandidateOrder ==
    (returned /\ stage1_calls > 0) =>
        /\ Len(results) >= K
        /\ \A i \in 1..K :
              /\ results[i].candidate_id = candidate_entries[i].candidate_id
              /\ results[i].title = candidate_entries[i].candidate.title

\* C3 witness: a returned run whose second sub-task completed first.
C3_Witness ==
    /\ returned
    /\ K >= 2
    /\ completion[1] = 2

\* C4: a returned run with K stage-1 candidates has K+1 results, whichever
\* stage-2 calls failed.
C4_ResultCount == (returned /\ stage1_calls > 0) => Len(results) = K + 1

\* C4 witness: a returned run with two candidates, max_candidates 2, one
\* stage-2 call failed.
C4_Witness ==
    /\ returned
    /\ K = 2
    /\ max_candidates = 2
    /\ \E i \in 1..K : results[i].error.some

EventTypes == [k \in 1..Len(events) |-> events[k].type]
\* the OS clipboard holds neither text nor an image
OsClipboardEmpty == ~Truthy(os_text) /\ ~os_image
\* text-only mode and the OS clipboard holds only an image
ShortCircuitScenario == text_only /\ ~Truthy(os_text) /\ os_image

\* C5: with neither text nor an image on the clipboard the run fails with
\* ClipboardEmpty before run_started and before any model call, in
\* text-only mode or not.
C5_EmptyClipboardFailsFirst ==
    (OsClipboardEmpty /\ pc # "created") =>
        /\ raised = Some(ClipboardEmptyMsg)
        /\ stage1_calls = 0
        /\ Positions("run_started") = {}

\* C6: in text-only mode with an image-only clipboard no stage-1 and no
\* stage-2 call is made, the run does not fail, the one candidates event
\* holds the manual candidate alone, the events of the completed run are
\* run_started, candidates, run_completed, and the returned results are the
\* manual result alone.
C6_ShortCircuit ==
    ShortCircuitScenario =>
        /\ stage1_calls = 0
        /\ tasks = <<>>
        /\ ~raised.some
        /\ \A k \in Positions("candidates") :
              /\ Len(events[k].items) = 1
              /\ events[k].items[1].is_manual
              /\ events[k].items[1].id = MANUAL_CANDIDATE_ID
        /\ pc \in {"completed", "done"} =>
              EventTypes = <<"run_started", "candidates", "run_completed">>
        /\ returned =>
              /\ Len(results) = 1
              /\ results[1].candidate_id = MANUAL_CANDIDATE_ID

\* C6 witness: the short-circuit run has returned.
C6_Witness == ShortCircuitScenario /\ returned /\ Len(events) = 3

\* C7 as claimed: in the short-circuit scenario the manual result's output
\* is the empty string.
C7_ShortCircuitOutputEmpty ==
    (ShortCircuitScenario /\ returned) => results[Len(results)].output = <<>>

\* C7 amended: in the short-circuit scenario the manual result's output is
\* the image-preserved marker string, which is not empty.
C7_ShortCircuitOutputIsMarker ==
    (ShortCircuitScenario /\ returned) =>
        /\ results[Len(results)].candidate_id = MANUAL_CANDIDATE_ID
        /\ results[Len(results)].output = ImageMarker
        /\ results[Len(results)].output # <<>>

\* C7 witness: the short-circuit run returned its manual result.
C7_Witness ==
    /\ ShortCircuitScenario
    /\ returned
    /\ clipboard.original_has_image
    /\ clipboard.text = Some(<<>>)

\* the manual output the specification gives for a snapshot
ManualOutputOf(clip) ==
    IF Truthy(clip.text) THEN clip.text.val
    ELSE IF clip.original_has_image THEN ImageMarker
    ELSE <<>>

\* C8: once the snapshot is captured the manual candidate's output is the
\* clipboard text if there is text, else the image marker if the
\* original-image flag is set, else empty; the manual item of every
\* candidates event, the fallback of every error event and the manual
\* result of the result list carry that same value, whatever stage 1 and
\* stage 2 did.
C8_ManualOutputFromSnapshot ==
    clipboard.present =>
        /\ manual_result.val.output = ManualOutputOf(clipboard)
        /\ \A k \in Positions("candidates") :
              LET items == events[k].items
              IN  /\ items[Len(items)].is_manual
                  /\ items[Len(items)].initial_output = ManualOutputOf(clipboard)
        /\ \A k \in Positions("error") :
              events[k].fallback.some =>
                  events[k].fallback.val.initial_output = ManualOutputOf(clipboard)
        /\ \A i \in 1..Len(results) :
              results[i].candidate_id = MANUAL_CANDIDATE_ID =>
                  results[i].output = ManualOutputOf(clipboard)

\* C8 witness: an image-only clipboard outside text-only mode; the
\* candidates event went out and a later failure emitted the fallback.
C8_Witness ==
    /\ clipboard.present
    /\ ~Truthy(clipboard.text)
    /\ clipboard.original_has_image
    /\ Positions("candidates") # {}
    /\ \E k \in Positions("error") : events[k].fallback.some
    /\ \E i \in 1..Len(tasks) : tasks[i].result.some

\* the run emitted run_completed on the stage-1/stage-2 path
CompletedThroughStage2 == pc \in {"completed", "done"} /\ stage1_calls > 0

\* C9: the events of a run that completed through stage 2 are run_started,
\* then one candidates event listing the generated candidates in stage-1
\* order and then the manual candidate, then preview_chunk events only,
\* then run_completed as the last event; and in no state is a
\* preview_chunk emitted before candidates or after run_completed.
C9_EventOrder ==
    /\ \A k \in Positions("preview_chunk") :
          /\ \E c \in Positions("candidates") : c < k
          /\ \A c \in Positions("run_completed") : k < c
    /\ CompletedThroughStage2 =>
          LET n == Len(events)
              items == events[2].items
          IN  /\ n >= 3
              /\ events[1].type = "run_started"
              /\ events[2].type = "candidates"
              /\ Len(items) = K + 1
              /\ \A i \in 1..K :
                    /\ items[i].id = candidate_entries[i].candidate_id
                    /\ items[i].title = candidate_entries[i].candidate.title
                    /\ ~items[i].is_manual
              /\ items[K + 1].is_manual
              /\ items[K + 1].id = MANUAL_CANDIDATE_ID
              /\ \A k \in 3..(n - 1) : events[k].type = "preview_chunk"
              /\ events[n].type = "run_completed"

\* C9 witness: a returned run with two candidates whose preview chunks
\* interleave (a chunk of the second candidate precedes one of the first).
C9_Witness ==
    /\ pc = "done"
    /\ K = 2
    /\ \E k1, k2 \in Positions("preview_chunk") :
          /\ k2 < k1
          /\ IsDeltaOf(events[k2], candidate_entries[2].candidate_id)
          /\ IsDeltaOf(events[k1], candidate_entries[1].candidate_id)

FinalPositions(id) == {k \in 1..Len(events) : IsFinalOf(events[k], id)}
ResultHasError(i) ==
    /\ i <= Len(tasks)
    /\ tasks[i].result.some
    /\ tasks[i].result.val.error.some
\* the final chunk of candidate i comes once, after the candidate's deltas,
\* before run_completed, with an error exactly when the result has one
FinalChunkOk(i) ==
    LET id == candidate_entries[i].candidate_id
    IN  /\ Cardinality(FinalPositions(id)) = 1
        /\ \A f \in FinalPositions(id) :
              /\ \A k \in 1..Len(events) : IsDeltaOf(events[k], id) => k < f
              /\ \A c \in Positions("run_completed") : f < c
              /\ events[f].error.some <=> ResultHasError(i)
\* no sub-task is still running
Quiescent == \A i \in 1..Len(tasks) : tasks[i].pc \in {"done", "crashed"}

\* C10 as claimed: in every run that is not cancelled, once the run and its
\* sub-tasks have ended, every stage-1 candidate has exactly one final
\* preview_chunk, after its deltas, before run_completed, carrying an error
\* exactly when its result has one.
C10_FinalChunkInEveryRun ==
    (pc \in {"done", "failed"} /\ Quiescent) => \A i \in 1..K : FinalChunkOk(i)

\* C10 amended: in every run a candidate has at most one final
\* preview_chunk and it follows every delta of that candidate; in a run
\* that completes (emits run_completed) every stage-1 candidate has exactly
\* one, before run_completed, carrying an error exactly when the
\* candidate's result has one.
C10_FinalChunkInCompletedRun ==
    /\ \A i \in 1..K :
          LET id == candidate_entries[i].candidate_id
          IN  /\ Cardinality(FinalPositions(id)) <= 1
              /\ \A f \in FinalPositions(id) :
                    \A k \in 1..Len(events) : IsDeltaOf(events[k], id) => k < f
    /\ CompletedThroughStage2 => \A i \in 1..K : FinalChunkOk(i)

\* C10 witness: a completed run with two candidates; one streamed a delta
\* and then failed, the other ended without error.
C10_Witness ==
    /\ pc = "done"
    /\ K = 2
    /\ \E i, j \in 1..K :
          /\ ResultHasError(i)
          /\ tasks[i].chunks # <<>>
          /\ ~ResultHasError(j)
          /\ tasks[j].result.val.output # <<>>

\* the manual payload the snapshot determines
ManualPayloadOf(clip) ==
    _candidate_payload(_build_manual_result(clip), MANUAL_CANDIDATE_ID, TRUE)
\* the failures a run raises once it holds a clipboard snapshot
FailureMessages ==
    TransportErrors \cup {RenderErrorMsg, ConfigErrorMsg, TypeErrorMsg}

\* C11: when a run fails after the clipboard snapshot was captured
\* (configuration, template rendering, stage-1 transport or parsing, a
\* stage-2 sub-task), exactly one error event is emitted, it carries the
\* failure's message and the manual-candidate payload as fallback, no
\* run_completed is emitted, and the failure is raised to the caller (the
\* run returns no result).  No run emits more than one error event.
C11_FailureEmitsOneErrorWithFallback ==
    /\ Cardinality(Positions("error")) <= 1
    /\ (raised.some /\ clipboard.present) =>
          /\ raised.val \in FailureMessages
          /\ Cardinality(Positions("error")) = 1
          /\ \A k \in Positions("error") :
                /\ events[k].message = raised.val
                /\ events[k].fallback = Some(ManualPayloadOf(clipboard))
          /\ Positions("run_completed") = {}
          /\ pc \in {"error_emitted", "failed"}
          /\ ~returned

\* C11 witness: a run that failed inside a stage-2 sub-task and re-raised.
C11_Witness ==
    /\ pc = "failed"
    /\ clipboard.present
    /\ \E i \in 1..Len(tasks) : tasks[i].pc = "crashed"
    /\ \E k \in Positions("error") : events[k].fallback.some

\* C12 as claimed: once the error event is emitted it is the last event of
\* the run.
C12_ErrorIsLastEvent ==
    \A k \in Positions("error") : k = Len(events)

\* C13 as claimed: the error event of a run that failed with ClipboardEmpty
\* carries the manual-candidate fallback payload.
C13_ClipboardEmptyErrorHasFallback ==
    (raised.some /\ raised.val = ClipboardEmptyMsg) =>
        \E k \in Positions("error") :
            /\ events[k].message = ClipboardEmptyMsg
            /\ events[k].fallback.some

\* the stage-1 model call raised a transport error (stage-2 transport
\* errors never leave generate_outputs)
Stage1TransportFailed ==
    raised.some /\ raised.val \in TransportErrors /\ stage1_calls > 0

\* C14 as claimed: after the stage-1 call failed with a transport error
\* and the run ended, the history holds a record with the manual candidate.
C14_Stage1FailureWritesHistory ==
    (pc = "failed" /\ Stage1TransportFailed) =>
        \E h \in 1..Len(history) :
            \E r \in 1..Len(history[h].results) :
                history[h].results[r].candidate_id = MANUAL_CANDIDATE_ID

\* no second run was triggered: MainRun names the run followed step by step
OnlyMainRun == second.pc = "none"
NothingResolves ==
    \A c \in KnownCandidateIds : ~get_candidate_output(MainRun, c).some

\* C15 as claimed: once the run's completion callback has run, the task
\* table has no entry for the run and a RunResult is stored exactly when
\* the run returned; after a failed run no candidate id, the manual one
\* included, resolves to an output.
C15_FailedRunResolvesNothing ==
    (callback_ran /\ OnlyMainRun) =>
        /\ _tasks[MainRun] = NoTask
        /\ _results[MainRun].some <=> pc = "done"
        /\ pc = "failed" => NothingResolves

\* C16 as claimed: after the run has terminated and its completion
\* callback has run, the partial-output buffer has no entry for the run.
C16_NoBufferAfterTermination ==
    (callback_ran /\ OnlyMainRun) => ~_partial_outputs[MainRun].some

\* a cancel_run for the run found its task and the task was cancelled in
\* flight
CancelledInFlight ==
    /\ pc = "cancelled"
    /\ \E k \in 1..Len(replies) :
          /\ replies[k].type = "run_cancelled"
          /\ replies[k].request_id = MainRun
          /\ replies[k].cancelled

\* C17 as claimed, for a cancel_run issued while the run was in flight: in
\* every later state no candidate id of the run resolves to an output.
C17_NothingResolvesAfterCancel ==
    (CancelledInFlight /\ OnlyMainRun) => NothingResolves

\* C18 as claimed: once cancel_all has returned (the client disconnected),
\* the task table is empty and no run started through start_run is still
\* running without having been cancelled.
C18_CancelAllReachesEveryRun ==
    ~connected =>
        /\ \A r \in RunIds : _tasks[r] = NoTask
        /\ pc \in {"idle", "done", "failed", "cancelled"}
        /\ second.pc # "running"

\* C19 as claimed: once the candidates event of the run has been handled
\* and while its manual output is recorded, get_candidate_output for the
\* manual id returns the recorded output, the empty string included.
C19_ManualOutputResolves ==
    (_manual_outputs[MainRun].some /\ OnlyMainRun) =>
        get_candidate_output(MainRun, MANUAL_CANDIDATE_ID)
            = _manual_outputs[MainRun]

\* C20 as claimed: a confirm answered with paste_ready wrote nothing to
\* the clipboard when it was for the manual candidate of a run whose
\* clipboard held an image, after the run completed or while it was in
\* flight, and wrote the resolved output in every other case.
C20_ManualImageConfirmCopiesNothing ==
    OnlyMainRun =>
        \A k \in 1..Len(replies) :
            (replies[k].type = "paste_ready" /\ replies[k].request_id = MainRun) =>
                IF /\ replies[k].candidate_id = MANUAL_CANDIDATE_ID
                   /\ clipboard.original_has_image
                THEN ~replies[k].copied.some
                ELSE /\ replies[k].copied.some
                     /\ Len(replies[k].copied.val) = replies[k].length

\* the ids a sequence of candidates-event items announces
AnnouncedIds(items) == [i \in 1..Len(items) |-> items[i].id]
\* the ids of a sequence are pairwise distinct
Distinct(ids) == \A i, j \in 1..Len(ids) : i # j => ids[i] # ids[j]

\* C30: within one run the generated candidate ids and the manual id are
\* pairwise distinct, no generated candidate has the manual id, every
\* sub-task's result carries the id of its candidate, and the i-th result
\* of the returned list carries the id the candidates event announced for
\* its i-th item.
C30_CandidateIdsDistinct ==
    /\ Distinct([i \in 1..K |-> candidate_entries[i].candidate_id]
                \o <<MANUAL_CANDIDATE_ID>>)
    /\ \A i \in 1..K : candidate_entries[i].candidate_id # MANUAL_CANDIDATE_ID
    /\ \A k \in Positions("candidates") :
          LET items == events[k].items
          IN  /\ Distinct(AnnouncedIds(items))
              /\ \A i \in 1..Len(items) :
                    items[i].id = MANUAL_CANDIDATE_ID <=> items[i].is_manual
    /\ \A i \in 1..Len(tasks) :
          tasks[i].result.some =>
              tasks[i].result.val.candidate_id = candidate_entries[i].candidate_id
    /\ returned =>
          \A k \in Positions("candidates") :
              AnnouncedIds(events[k].items)
                  = [i \in 1..Len(results) |-> results[i].candidate_id]

\* C30 witness: a returned run with two generated candidates, one of them
\* failed, whose ids were drawn against the order of the candidates.
C30_Witness ==
    /\ returned
    /\ K = 2
    /\ candidate_entries[1].candidate_id = UuidPool[2]
    /\ \E i \in 1..K : results[i].error.some
    /\ Len(results) = 3

\* the stage-1 response text was not structured candidate data: empty,
\* unparsable, or valid JSON that is neither an object nor an array
Stage1Unstructured ==
    last_stage1_raw \in {"empty", "garbage", "scalar", "string"}

\* C29 as claimed: after a stage-1 response text that is not structured
\* candidate data, generate_intents has returned an empty list without
\* raising: the run does not fail, its candidates event holds the manual
\* item alone, and the run that returns has the manual result alone.
C29_UnstructuredStage1Degrades ==
    Stage1Unstructured =>
        /\ ~raised.some
        /\ K = 0
        /\ \E k \in Positions("candidates") :
              /\ Len(events[k].items) = 1
              /\ events[k].items[1].is_manual
        /\ returned =>
              /\ Len(results) = 1
              /\ results[1].candidate_id = MANUAL_CANDIDATE_ID

\* the delta events of candidate i, in the order they were emitted
DeltaTexts(i) ==
    LET Mine(e) == IsDeltaOf(e, candidate_entries[i].candidate_id)
        mine == SelectSeq(events, Mine)
    IN  [k \in 1..Len(mine) |-> mine[k].delta_text.val]
\* the non-streaming call of sub-task i was answered with a text and
\* _maybe_stream_chat is past the callback
FellBackOk(i) ==
    /\ tasks[i].chat.some
    /\ tasks[i].chat.val.ok
    /\ tasks[i].pc \in {"chat_delivered", "final_emitted", "done"}
\* the streaming request of sub-task i was refused, or its stream broke or
\* ended empty: the sub-task is past the streaming part without a result
\* from it
StreamGaveUp(i) ==
    \/ tasks[i].pc \in {"chat_wait", "chat_delivered"}
    \/ tasks[i].chat.some
\* what holds of the fallback whatever the text was
FallbackCommon(i) ==
    /\ tasks[i].stream_calls <= 1
    /\ tasks[i].chat_calls = (IF StreamGaveUp(i) THEN 1 ELSE 0)
    /\ tasks[i].result.some =>
          (tasks[i].result.val.error.some <=> ChatFailed(i))
    /\ (FellBackOk(i) /\ tasks[i].result.some) =>
          tasks[i].result.val.output = Strip(tasks[i].chat.val.val)

\* C28 as claimed: when the streaming call is refused or does not complete
\* (before any delta or after some), exactly one non-streaming call is
\* issued, the result's output is that call's text, the callback receives
\* that text as exactly one delta after the deltas of the stream, and the
\* result has an error exactly when the non-streaming call failed.
C28_FallbackOneSyntheticDelta ==
    \A i \in 1..Len(tasks) :
        /\ FallbackCommon(i)
        /\ FellBackOk(i) =>
              DeltaTexts(i) = tasks[i].chunks \o <<Strip(tasks[i].chat.val.val)>>

\* C28 amended: ... the callback receives that text as exactly one delta
\* when the text is not empty and receives no delta for it when it is
\* empty (an empty or whitespace-only completion).
C28_FallbackDeltaUnlessEmpty ==
    \A i \in 1..Len(tasks) :
        /\ FallbackCommon(i)
        /\ FellBackOk(i) =>
              LET text == Strip(tasks[i].chat.val.val)
              IN  DeltaTexts(i) =
                      tasks[i].chunks \o (IF text = <<>> THEN <<>> ELSE <<text>>)

\* C28 witness: a stream that broke after a delta was delivered, a
\* fallback call that returned text, and a sibling whose fallback call
\* failed too; the run returned.
C28_Witness ==
    /\ returned
    /\ \E i, j \in 1..Len(tasks) :
          /\ FellBackOk(i)
          /\ tasks[i].chunks # <<>>
          /\ tasks[i].result.val.output # <<>>
          /\ ChatFailed(j)

\* what no message handler but cancel_run and the run itself may change
coordinatorState ==
    <<_tasks, _results, _partial_outputs, _manual_outputs, pc, tasks, second>>
\* the client can have its next message handled
HandlerReady ==
    /\ ENABLED (\E r \in MessageRunIds : _handle_cancel(r))
    /\ ENABLED (\E r \in MessageRunIds : \E c \in ConfirmIds : _handle_confirm(r, c))

\* C21: a confirm_candidate whose (run id, candidate id) resolves to no
\* output is answered with the "output not ready" error and nothing else:
\* the OS clipboard is not written, no paste_ready is sent (the paste is
\* simulated only on the way to paste_ready), the coordinator's state and
\* the runs are left alone, the connection stays open; and after such an
\* answer the handlers take the client's next message.
C21_UnresolvedConfirmNotReady ==
    /\ [](((\E k \in 1..Len(replies) : replies[k].type = "error_not_ready")
            /\ connected /\ Len(replies) < MaxMessages) => HandlerReady)
    /\ [][\A r \in RunIds : \A c \in ConfirmIds \ {NoCandidateId} :
             (_handle_confirm(r, c) /\ ~get_candidate_output(r, c).some) =>
                 /\ replies' = Append(replies,
                        Reply("error_not_ready", r, "", 0, FALSE, None))
                 /\ UNCHANGED <<os_text, os_image, coordinatorState>>
                 /\ connected']_vars

\* C21 witness: a confirm for a run id not yet known was answered "not
\* ready"; the trigger_run sent after it was accepted and its run returned.
C21_Witness ==
    /\ Len(replies) = 2
    /\ replies[1].type = "error_not_ready"
    /\ replies[1].request_id = MainRun
    /\ replies[2].type = "run_accepted"
    /\ pc = "done"

\* a step that appends one error reply of the type and changes nothing else
OnlyErrorReply(type) ==
    /\ replies' = Append(replies, Reply(type, NoRequestId, "", 0, FALSE, None))
    /\ UNCHANGED <<inputVars, apartVars, coordinatorState, runVars,
                   callback_ran, connected>>

\* C25: a message of unknown type, a confirm_candidate without request id
\* or candidate id, and a cancel_run without request id are each answered
\* with one error reply (unknown type, confirm missing, cancel missing);
\* the step leaves the task table, the stored results, the partial buffers,
\* the manual outputs, the OS clipboard and every run and sub-task as they
\* were, so the runs in flight go on.
C25_MalformedMessageOnlyErrors ==
    [][/\ \A t \in UnknownTypes :
             _handle_ws_message(t) => OnlyErrorReply("error_unknown_type")
       /\ _handle_cancel(NoRequestId) => OnlyErrorReply("error_cancel_missing")
       /\ \A r \in MessageRunIds : \A c \in ConfirmIds :
             ((r = NoRequestId \/ c = NoCandidateId) /\ _handle_confirm(r, c))
                 => OnlyErrorReply("error_confirm_missing")]_vars

\* C25 witness: while the accepted run waits for its stage-2 sub-tasks and
\* one of them streams, a cancel_run without request id has been answered
\* with the error.
C25_Witness ==
    /\ Len(replies) = 2
    /\ replies[1].type = "run_accepted"
    /\ replies[2].type = "error_cancel_missing"
    /\ pc = "gather"
    /\ _tasks[MainRun] = MainTask
    /\ \E i \in 1..Len(tasks) : tasks[i].pc = "streaming"

\* the number of events a completed stage-2 run hands to its callback:
\* run_started, candidates, every delta and one final chunk per
\* candidate, run_completed
RECURSIVE ChunkEvents(_)
ChunkEvents(n) ==
    IF n = 0 THEN 0 ELSE ChunkEvents(n - 1) + Len(DeltaTexts(n)) + 1

\* C26: with an event callback that raises on every event, the failure
\* never becomes the run's: the run fails only with the failures it has
\* with a working callback, it can always go on, and when it returns, its
\* result list is what the backend's answers make it and the events it
\* handed to the callback are the full sequence of a run with a working
\* callback (run_started, candidates, every delta and final chunk,
\* run_completed with the result count).
C26_FailingSinkLeavesRunAlone ==
    sink_raises =>
        /\ raised.some => raised.val \in FailureMessages \cup {ClipboardEmptyMsg}
        /\ (NoTaskCrashed /\ ~raised.some /\ ~returned) => ENABLED Next
        /\ (returned /\ stage1_calls > 0) =>
              /\ Len(results) = K + 1
              /\ \A j \in 1..K : MatchesOwnOutcome(results[j], j)
              /\ results[K + 1] = _build_manual_result(clipboard)
              /\ Len(events) = 3 + ChunkEvents(K)
              /\ events[1] = RunStartedEvent(clipboard)
              /\ events[2] = CandidatesEvent(
                                 CandidateItems(candidate_entries, manual_payload))
              /\ events[Len(events)] = RunCompletedEvent(K + 1)
              /\ \A i \in 1..K : FinalChunkOk(i)
              /\ \A i \in 1..K :
                    DeltaTexts(i) =
                        tasks[i].chunks
                        \o (IF tasks[i].response_text # <<>>
                            THEN <<tasks[i].response_text>> ELSE <<>>)
        /\ (returned /\ stage1_calls = 0) =>
              /\ results = <<_build_manual_result(clipboard)>>
              /\ events = <<RunStartedEvent(clipboard),
                            CandidatesEvent(<<manual_payload.val>>),
                            RunCompletedEvent(1)>>

\* C26 witness: the callback raised on every event of a returned run with
\* two candidates, one of which streamed a delta and one of which failed.
C26_Witness ==
    /\ sink_raises
    /\ returned
    /\ K = 2
    /\ \E i, j \in 1..K :
          /\ tasks[i].chunks # <<>>
          /\ ~ResultHasError(i)
          /\ ResultHasError(j)

\* the non-streaming call of direct call c ended in a transport error
CallChatFailed(c) == calls[c].chat.some /\ ~calls[c].chat.val.ok

\* C27 as claimed: in generate_outputs a failure raised by the per-delta
\* callback does not alter generation: a non-streaming call is issued only
\* when the stream was refused, broke or ended empty, a result has an error
\* only when the non-streaming call failed, and a result obtained from a
\* stream that did not fail is the join of its deltas.
C27_CallbackFailureHarmless ==
    \A c \in 1..Len(calls) :
        calls[c].callback_errors > 0 =>
            /\ calls[c].chat_calls > 0 => calls[c].stream_failed
            /\ calls[c].result.some =>
                  /\ calls[c].result.val.error.some => CallChatFailed(c)
                  /\ ~calls[c].stream_failed =>
                        calls[c].result.val.output = Strip(Join(calls[c].chunks))

\* the senders whose websocket.send_json is in progress
Writers == {who \in SenderIds : senders[who].pc = "writing"}

\* C22: all outbound writes on one connection are serialized: at no time
\* are two websocket sends of the connection in progress at once, whatever
\* the runs and the receive loop produce concurrently; a send in progress
\* holds the connection's lock.
C22_WritesSerialized ==
    /\ Cardinality(Writers) <= 1
    /\ Writers # {} => _send_lock.locked

\* a run's event is being written while the reply of the receive loop and
\* an event of the other run wait for the lock
C22_Witness ==
    \E r \in RunIds :
        /\ senders[r].pc = "writing"
        /\ senders[Handler].pc = "lock_wait"
        /\ \E o \in RunIds \ {r} : senders[o].pc = "lock_wait"

\* the message types the receive loop writes
ReplyTypes == {"run_accepted", "run_cancelled"}

\* run_accepted of run r is among the first n messages written
AcceptedWithin(r, n) ==
    \E i \in 1..n : wire[i].type = "run_accepted" /\ wire[i].request_id = r

\* C23: for every trigger_run the run_accepted reply carrying the run id
\* is written before any event of that run is written or begins to be
\* written, also when other runs' events contend for the send lock.
C23_AcceptedBeforeEvents ==
    /\ \A j \in 1..Len(wire) :
          wire[j].type \notin ReplyTypes =>
              AcceptedWithin(wire[j].request_id, j - 1)
    /\ \A r \in RunIds :
          senders[r].pc = "writing" => AcceptedWithin(r, Len(wire))

\* run_accepted of a run and the run's first event were both written after
\* waiting for the lock
C23_Witness ==
    \E i, j \in 1..Len(wire) :
        /\ i < j
        /\ wire[i].type = "run_accepted"
        /\ wire[i].waited
        /\ wire[j].type \notin ReplyTypes
        /\ wire[j].request_id = wire[i].request_id
        /\ wire[j].waited

\* the reply cancel_run(r) begins to send says cancelled
RepliesCancelled(r, cancelled) ==
    senders'[Handler].msg = WireMsg("run_cancelled", r, cancelled)

\* C24 as claimed: the reply to cancel_run for an already finished run says
\* cancelled = false.
C24_FinishedRunRepliesFalse ==
    [][\A r \in RunIds :
          (cancel_run(r) /\ senders[r].pc = "finished") =>
              RepliesCancelled(r, FALSE)]_vars

\* C24: the reply to cancel_run is run_cancelled with cancelled equal to
\* whether a task for the run id was in the task table when the message
\* was processed, and the id is out of the table afterwards: false for an
\* id never started and for a run whose done callback has run, true for a
\* run still registered, be it running or finished with its done callback
\* pending; a reply saying true follows the run's run_accepted with no
\* other reply to a cancel_run of that run in between, so a second
\* cancel_run of the same run is answered false.
C24_CancelReplyTellsRegistered ==
    /\ [](\A j \in 1..Len(wire) :
             (wire[j].type = "run_cancelled" /\ wire[j].cancelled) =>
                 \E i \in 1..(j - 1) :
                     /\ wire[i].type = "run_accepted"
                     /\ wire[i].request_id = wire[j].request_id
                     /\ \A k \in (i + 1)..(j - 1) :
                           ~(/\ wire[k].type = "run_cancelled"
                             /\ wire[k].request_id = wire[j].request_id))
    /\ [][\A r \in RunIds :
             cancel_run(r) =>
                 /\ RepliesCancelled(r, _tasks[r] # NoTask)
                 /\ _tasks'[r] = NoTask
                 /\ senders[r].pc \in {"none", "removed"} =>
                       RepliesCancelled(r, FALSE)
                 /\ (senders[r].pc \in {"created", "ready", "lock_wait",
                                        "writing"}
                     /\ ~senders[r].must_cancel) =>
                       RepliesCancelled(r, TRUE)]_vars

\* a cancel_run answered true and a later one of the same run answered
\* false are both on the wire
C24_Witness ==
    \E i, j \in 1..Len(wire) :
        /\ i < j
        /\ wire[i].type = "run_cancelled"
        /\ wire[i].cancelled
        /\ wire[j].type = "run_cancelled"
        /\ wire[j].request_id = wire[i].request_id
        /\ ~wire[j].cancelled

\* the second run, if any, has another run id than the main run
OtherRunIds == second.request_id # MainRun /\ second'.request_id # MainRun

\* C31 as claimed: once the run has returned its result, two calls of
\* get_candidate_output with the same ids give the same value, whatever
\* happens between them.
C31_OutputStableOnceReturned ==
    [][(pc = "done" /\ OtherRunIds) =>
          \A c \in ConfirmIds :
              get_candidate_output(MainRun, c)' = get_candidate_output(MainRun, c)]_vars

\* C31: once the run's result is stored, two calls of get_candidate_output
\* with the same run id and candidate id give the same value, whatever step
\* is taken between them: cancel_run of the run, cancel_all, events and
\* completions of a run with another run id; the value of a candidate of
\* the result is that result's output.
C31_OutputStableOnceStored ==
    /\ []((_results[MainRun].some /\ second.request_id # MainRun) =>
             \A i \in 1..Len(results) :
                 get_candidate_output(MainRun, results[i].candidate_id)
                     = Some(results[i].output))
    /\ [][(_results[MainRun].some /\ OtherRunIds) =>
             \A c \in ConfirmIds :
                 get_candidate_output(MainRun, c)'
                     = get_candidate_output(MainRun, c)]_vars

\* the run's result is stored, a generated candidate resolves to a text,
\* and a cancel_run of the run was answered after that
C31_Witness ==
    /\ _results[MainRun].some
    /\ second.request_id # MainRun
    /\ \E i \in 1..Len(results) :
          /\ results[i].candidate_id # MANUAL_CANDIDATE_ID
          /\ results[i].output # <<>>
    /\ Len(replies) = 2
    /\ replies[2].type = "run_cancelled"
    /\ replies[2].request_id = MainRun
    /\ ~replies[2].cancelled

\* the callers of apply_updates inside the read-merge-persist section
InSection == {u \in UpdaterIds : updaters[u].pc \in {"locked", "merged", "persisted"}}

\* every leaf of the updates is in the settings tree
RECURSIVE Contains(_, _)
Contains(tree, updates) ==
    \A k \in DOMAIN updates :
        /\ k \in DOMAIN tree
        /\ IF updates[k].dict
           THEN tree[k].dict /\ Contains(tree[k].items, updates[k].items)
           ELSE tree[k] = updates[k]

\* C32: at most one apply_updates is between reading the raw settings and
\* replacing the in-memory settings, and it holds the lock; the changes of
\* every update that returned are in the persisted settings, and when no
\* update is in its section the raw cache and the in-memory settings are
\* the persisted settings: of two concurrent updates of different keys
\* none is lost.
C32_NoLostSettingsUpdate ==
    /\ Cardinality(InSection) <= 1
    /\ InSection # {} => _lock.locked
    /\ \A u \in UpdaterIds : \A n \in 1..Len(updaters[u].applied) :
          Contains(settings_file, updaters[u].applied[n])
    /\ InSection = {} => _raw_cache = settings_file /\ _settings = settings_file

\* two concurrent updates of two keys of one section: one caller is in
\* the section with the other's change already persisted, the other has
\* returned and calls again, waiting for the lock
C32_Witness ==
    /\ updaters["ws"].pc = "merged"
    /\ updaters["ws"].updates = One("model", Dict(One("name", Leaf("new"))))
    /\ updaters["http"].applied =
          <<One("model", Dict(One("api_key", Leaf("new"))))>>
    /\ updaters["http"].pc = "lock_wait"
    /\ Contains(updaters["ws"].raw, updaters["http"].applied[1])

\* the buffer of a run in a partial-output table: candidate id -> text
BufferOf(partial, request_id) ==
    IF partial[request_id].some THEN partial[request_id].val ELSE EmptyDict

\* the step hands a preview_chunk to the event sink
ChunkHandled ==
    /\ Len(events') = Len(events) + 1
    /\ events'[Len(events')].type = "preview_chunk"

\* C33: handling a preview_chunk of run r and candidate c changes only the
\* buffer entry of (r, c): the other candidates' entries, the other runs'
\* buffers, the task table, the stored results and the manual outputs stay
\* as they are.  A chunk with an error leaves the entry empty; else one with
\* a delta leaves the previous entry (empty if absent) followed by the
\* delta; else a final chunk leaves the previous entry, empty if absent.
C33_ChunkTouchesOneEntry ==
    [][ChunkHandled =>
          LET e == events'[Len(events')]
              c == e.candidate_id
              before == BufferOf(_partial_outputs, MainRun)
              after == BufferOf(_partial_outputs', MainRun)
              previous == IF c \in DOMAIN before THEN before[c] ELSE <<>>
          IN  /\ \A r \in RunIds \ {MainRun} :
                    _partial_outputs'[r] = _partial_outputs[r]
              /\ DOMAIN after = DOMAIN before \cup {c}
              /\ \A k \in DOMAIN before \ {c} : after[k] = before[k]
              /\ UNCHANGED <<_tasks, _results, _manual_outputs>>
              /\ after[c] = IF Truthy(e.error) THEN <<>>
                            ELSE IF Truthy(e.delta_text)
                            THEN previous \o e.delta_text.val
                            ELSE previous]_vars

\* two candidates have buffer entries: the one of a candidate whose deltas
\* were followed by a final chunk with an error is empty, the other holds
\* its deltas
C33_Witness ==
    \E i, j \in 1..Len(events) :
        /\ i < j
        /\ events[i].type = "preview_chunk"
        /\ Truthy(events[i].delta_text)
        /\ events[j].type = "preview_chunk"
        /\ events[j].candidate_id = events[i].candidate_id
        /\ Truthy(events[j].error)
        /\ LET buffer == BufferOf(_partial_outputs, MainRun)
           IN  /\ events[i].candidate_id \in DOMAIN buffer
               /\ buffer[events[i].candidate_id] = <<>>
               /\ \E o \in DOMAIN buffer : buffer[o] # <<>>

\* the sub-tasks with a model call in flight
InFlight ==
    {i \in 1..Len(tasks) : tasks[i].pc \in {"stream_open", "streaming", "chat_wait"}}

\* C34 as claimed: within one run the stage-2 model calls in flight at the
\* same time never exceed max(1, max_candidates), and the stage-1
\* candidates, hence the stage-2 sub-tasks, never exceed
\* max(0, max_candidates), for every configured integer max_candidates.
C34_CandidatesAndCallsBounded ==
    /\ Cardinality(InFlight) <= Max(1, max_candidates)
    /\ Len(candidate_entries) <= Max(0, max_candidates)
    /\ Len(tasks) <= Max(0, max_candidates)

\* the part of C34 on the calls in flight alone
CallsInFlightBounded == Cardinality(InFlight) <= Max(1, max_candidates)

\* the part of C34 on the candidates, for max_candidates >= 0
CandidatesBoundedIfNonNegative ==
    max_candidates >= 0 => Len(candidate_entries) <= max_candidates

\* the history record lists the items, one entry each, in their order
ListsResults(record, items) ==
    /\ Len(record.results) = Len(items)
    /\ \A i \in 1..Len(items) :
          /\ record.results[i].title = items[i].title
          /\ record.results[i].candidate_id = items[i].candidate_id
          /\ record.results[i].output_preview = Take(items[i].output, OutputPreviewLen)
          /\ record.results[i].error = items[i].error

\* the history holds one record if run_completed was emitted, else none,
\* and the record lists the run's results
RecordWithCompletion ==
    /\ Len(history) = (IF Positions("run_completed") # {} THEN 1 ELSE 0)
    /\ Cardinality(Positions("run_completed")) <= 1
    /\ history # <<>> => ListsResults(history[1], results)
    /\ pc = "done" => history # <<>>

CancelReturnedTrue(r) ==
    \E k \in 1..Len(replies) :
        /\ replies[k].type = "run_cancelled"
        /\ replies[k].request_id = r
        /\ replies[k].cancelled

\* C36 as claimed: once cancel_run of a run has returned true no result is
\* stored under the run's id, however the cancel falls between the task's
\* last step and its completion callback (the run id is used by one run).
C36_NoResultAfterCancel ==
    (CancelReturnedTrue(MainRun) /\ second.request_id # MainRun) =>
        ~_results[MainRun].some

\* the part of C36 for a cancel that reaches the task before it has
\* finished: the task ends cancelled and nothing is stored
NoResultOfCancelledTask ==
    (pc = "cancelled" /\ second.request_id # MainRun) => ~_results[MainRun].some

\* the main run's task exists and has not finished
MainInFlight == pc # "idle" /\ ~TaskFinished

\* C37 as claimed: start_run never registers a run under a run id that is
\* in the task table, so every run in flight keeps its own entry in the
\* task table, whatever other runs start and complete, and stays reachable
\* by cancel_run.
C37_InFlightRunsKeepTheirEntry ==
    /\ [][\A r \in RunIds : Second_start_run(r) => _tasks[r] = NoTask]_vars
    /\ [](MainInFlight => _tasks[MainRun] = MainTask)
    /\ [](second.pc = "running" => _tasks[second.request_id] = SecondTask)

\* the part of C37 for runs with different run ids
DistinctIdsKeepTheirEntry ==
    second.request_id # MainRun =>
        /\ MainInFlight => _tasks[MainRun] = MainTask
        /\ second.pc = "running" => _tasks[second.request_id] = SecondTask

\* C38 as claimed: once the run_cancelled reply with cancelled = true of a
\* run is out, no further event of that run is handed to the event
\* callback, which lets the coordinator handle it and writes it to the
\* connection.
C38_NoEventAfterCancelReply ==
    [][(CancelReturnedTrue(MainRun) /\ second.request_id # MainRun) =>
          events' = events]_vars

\* the part of C38 for a run none of whose sub-tasks has crashed
NoEventAfterCancelUnlessCrashed ==
    [][(CancelReturnedTrue(MainRun) /\ second.request_id # MainRun
        /\ \A i \in 1..Len(tasks) : tasks'[i].pc # "crashed") =>
          events' = events]_vars

\* the step hands the final chunk, without error, of sub-task i to the
\* sink, in a run waiting in gather whose id no other run uses
FinalChunkHandled(i) ==
    /\ ChunkHandled
    /\ pc = "gather"
    /\ second'.request_id # MainRun
    /\ events'[Len(events')].is_final
    /\ ~Truthy(events'[Len(events')].error)
    /\ events'[Len(events')].candidate_id = candidate_entries[i].candidate_id

\* after the step the buffer entry of sub-task i's candidate is, once
\* stripped, the output of the sub-task's result
BufferIsOutput(i) ==
    LET buffer == BufferOf(_partial_outputs', MainRun)
        c == candidate_entries[i].candidate_id
    IN  /\ c \in DOMAIN buffer
        /\ tasks'[i].result.some
        /\ Strip(buffer[c]) = tasks'[i].result.val.output

\* C39 as claimed: when a candidate's final preview_chunk without error has
\* been handled, the partial-output buffer of the candidate holds the text
\* that is the candidate's final output, up to surrounding whitespace, on
\* the streaming path and on the stream-then-fallback path.
C39_BufferIsFinalOutput ==
    [][\A i \in 1..Len(tasks) : FinalChunkHandled(i) => BufferIsOutput(i)]_vars

\* the part of C39 for a candidate without non-streaming call, and for one
\* whose stream gave no delta before the non-streaming call
BufferIsFinalOutputUnlessBoth ==
    [][\A i \in 1..Len(tasks) :
          (FinalChunkHandled(i)
           /\ (tasks'[i].chat_calls = 0 \/ tasks'[i].chunks = <<>>)) =>
              BufferIsOutput(i)]_vars

\* ------------------------------------------------------------ termination
\* The coordinator under the event loop's scheduling: a step of the run's
\* task or of a sub-task that is ready is eventually taken (every model
\* call returns or fails, every sink call returns), the second run's task
\* eventually ends, and a done callback that was scheduled eventually runs.
\* The client's messages (trigger_run, cancel_run, confirm_candidate) and
\* its disconnection are under no obligation to happen.
FairCoordSpec ==
    /\ CoordSpec
    /\ WF_vars(Next)
    /\ WF_vars(_done_callback)
    /\ WF_vars(Second_Finish)
    /\ WF_vars(Second_done_callback)

\* start_run has created the run's task
Started == pc # "idle"

\* the run's task was cancelled before it finished
RunCancelled == pc = "cancelled"

\* every stage-2 sub-task has returned, raised or was cancelled
SubTasksFinished ==
    \A i \in 1..Len(tasks) : tasks[i].pc \in {"done", "crashed", "cancelled"}

\* the events that end a run
TerminalPositions == Positions("run_completed") \cup Positions("error")

\* the run's task finished uncancelled, with one terminal event, the last
EndedWithTerminalEvent ==
    /\ pc \in {"done", "failed"}
    /\ Cardinality(TerminalPositions) = 1
    /\ events # <<>>
    /\ Len(events) \in TerminalPositions

\* a run that is not cancelled ends with one terminal event, for good
UncancelledRunEnds == <>[](Started => (RunCancelled \/ EndedWithTerminalEvent))

\* a cancelled run's task and sub-tasks all finish
CancelledRunEnds == RunCancelled ~> (TaskFinished /\ SubTasksFinished)

\* the task table stops holding the run's task
EntryLeaves == Started ~> [](_tasks[MainRun] # MainTask)

\* C40 as claimed: every started run terminates: uncancelled, it emits
\* exactly one of run_completed and error as its last event and its task
\* finishes; cancelled, its task and all its sub-tasks finish; either way
\* its entry leaves the task table.
C40_RunTerminates == UncancelledRunEnds /\ CancelledRunEnds /\ EntryLeaves

\* the run's task finished uncancelled, with one terminal event
EndedWithOneTerminalEvent ==
    /\ pc \in {"done", "failed"}
    /\ Cardinality(TerminalPositions) = 1

\* the part of C40 that holds: every started run's task and sub-tasks
\* finish, an uncancelled run with exactly one terminal event, and the
\* run's task leaves the task table
RunTerminatesWithOneTerminalEvent ==
    /\ Started ~> (TaskFinished /\ SubTasksFinished)
    /\ <>[](Started => (RunCancelled \/ EndedWithOneTerminalEvent))
    /\ CancelledRunEnds
    /\ EntryLeaves

\* the terminal event of a run none of whose sub-tasks raised is its last
TerminalEventIsLastUnlessCrashed ==
    <>[](Started =>
            (RunCancelled \/ EndedWithTerminalEvent
             \/ \E i \in 1..Len(tasks) : tasks[i].pc = "crashed"))

====
